---- MODULE Spec2Model ----
(***************************************************************************)
(* Flash scheduling and gating of the Visible Cursor plugin.               *)
(*                                                                         *)
(* The plugin (VisibleCursorPlugin) runs on the host UI thread.  Its state  *)
(* is the private fields of the plugin object; the host contributes a      *)
(* timer queue (setTimeout / clearTimeout), an animation-frame queue       *)
(* (requestAnimationFrame) and the document body that holds the flash      *)
(* overlays.                                                               *)
(*                                                                         *)
(* Time is in milliseconds and is kept relative to the present: now, the   *)
(* value Date.now() returns, is the origin, and a stored timestamp t       *)
(* stands for the instant t milliseconds from now (negative: in the past). *)
(* When time passes every stored timestamp moves back.  The program reads  *)
(* lastViewChange only to ask whether it lies less than MinIntervalMs      *)
(* back, and scrollFlashSuppressedUntil only to ask whether it lies ahead, *)
(* so a timestamp that has left its window stays at the window's edge.     *)
(***************************************************************************)
EXTENDS Integers, Sequences, FiniteSets, TLC

VARIABLES
    timers,                       \* host timer queue
    raf1,                         \* triggers waiting for their first animation frame
    raf2,                         \* triggers waiting for their second animation frame
    overlays,                     \* flash overlay elements attached to document.body
    settings,                     \* plugin.settings
    unloaded,                     \* onunload has run
    lastViewChange,
    flashTimeout,
    resetFlashTimeout,
    scrollDebounceTimer,
    lastScrollPosition,
    flashActive,
    clickFenceActive,
    pendingFlashTrigger,
    scrollFlashSuppressedUntil,
    probe,                        \* a call of a pure function: its inputs and its result
    overlayRemoved,               \* observer: an overlay has been attached and removed again
    scenarioA,                    \* observer: how far scenario A has got
    scenarioB,                    \* observer: how far scenario B has got
    burstLast,                    \* observer: the latest scroll event of a burst begun under a flash
    pointer,                      \* observer: the pointer is "up", "down" or just "released"
    tailLeft,                     \* observer: what is left of the tail after the latest release
    duplicate,                    \* observer: how far a pair of duplicate view triggers has got
    gesture,                      \* observer: how far a single scroll gesture has got
    editors,                      \* the editor views: focus and custom cursor decorations
    body,                         \* the overlay elements attached to document.body, one by one
    layout                        \* cursor geometry: the host's, and the latest overlay's

vars == << timers, raf1, raf2, overlays, settings, unloaded,
           lastViewChange, flashTimeout, resetFlashTimeout, scrollDebounceTimer,
           lastScrollPosition, flashActive, clickFenceActive, pendingFlashTrigger,
           scrollFlashSuppressedUntil, probe, overlayRemoved, scenarioA, scenarioB,
           burstLast, pointer, tailLeft, duplicate, gesture, editors, body, layout >>

\* the editor views and the document as the specifications about them follow them
editorVars == << editors, body, layout >>

\* what a specification leaves alone unless it is about it
observers == << probe, gesture, overlayRemoved, scenarioA, scenarioB, burstLast, pointer, tailLeft,
                duplicate, editorVars >>

hostVars == << raf1, raf2, overlays, settings, unloaded >>

(***************************************************************************)
(* Bounds of the model.                                                    *)
(***************************************************************************)
MaxFenceTimers == 1       \* live fence-release timers
MaxRaf == 1               \* animation-frame callbacks waiting per stage
MaxFencePending == 2      \* live fence-release timers, where the click fence is studied alone
MaxRafPending == 2        \* animation-frame callbacks waiting, where duplicate triggers are studied
MaxOverlays == 3          \* overlay elements attached, where FlashRenderer is studied alone
MaxPureNow == 260         \* timestamps tried on canScheduleFlash
MaxDeltaNum == 12         \* numerators of the scroll deltas tried
DeltaDen == 100           \* a scroll delta is a fraction num/den, den in {1, DeltaDen}

(***************************************************************************)
(* Program constants.                                                      *)
(***************************************************************************)
MinIntervalMs == 100
SmallScrollDelta == 5
LongDebounceMs == 250
ShortDebounceMs == 150
AdmissionDelayMs == 50
FenceTailMs == 400
ScrollSuppressMs == 300

\* Date.now()
now == 0

\* The clock advances in steps of the shortest delay of the program.
Tick == AdmissionDelayMs

\* the timestamp t after it has aged, kept inside a window that reaches back to edge
Aged(t, edge) == IF t - Tick < edge THEN edge ELSE t - Tick

LineDurations == {200}
ScrollTops == {2, 82}
Triggers == {"scroll", "view-change", "layout-change", "key-navigation", "mouse-click", "any-trigger"}
NoTrigger == "null"

\* A timer of the host: its id (the handle setTimeout returns), what it runs,
\* when it is due, and the delay it was armed with.
Timer(id, kind, due, delay) == [id |-> id, kind |-> kind, due |-> due, delay |-> delay]
\* A timer id: JavaScript numbers every timer differently; here the ids of the
\* timers of one purpose are numbered apart from those of the others.
Handle(kind, n) == [kind |-> kind, n |-> n]
\* a null handle
NULL == Handle("null", 0)
\* the id of a timer whose handle the program drops
Unkept(kind) == Handle(kind, 0)

Abs(x) == IF x < 0 THEN -x ELSE x
Frac(n, d) == [num |-> n, den |-> d]
\* a < k for a fraction a and an integer k
FracLess(a, k) == a.num < k * a.den

(***************************************************************************)
(* Pure functions (utils.ts, FlashScheduler).                              *)
(***************************************************************************)
\* Variant: view-change is left out of the triggers that pass the fence.
isViewTriggerLayoutOnly(trigger) == trigger = "layout-change"

isViewTrigger(trigger) == trigger = "view-change" \/ trigger = "layout-change"

\* Variants of the gate, each with one of its checks left out.
shouldAllowFlashIgnoringActive(trigger, isFenceActive, isFlashActive, hasPendingFlash) ==
    IF ~isViewTrigger(trigger) /\ isFenceActive THEN FALSE
    ELSE IF hasPendingFlash THEN FALSE
    ELSE TRUE

shouldAllowFlashIgnoringPending(trigger, isFenceActive, isFlashActive, hasPendingFlash) ==
    IF ~isViewTrigger(trigger) /\ isFenceActive THEN FALSE
    ELSE IF isFlashActive THEN FALSE
    ELSE TRUE

shouldAllowFlashIgnoringFence(trigger, isFenceActive, isFlashActive, hasPendingFlash) ==
    IF isFlashActive \/ hasPendingFlash THEN FALSE
    ELSE TRUE

shouldAllowFlash(trigger, isFenceActive, isFlashActive, hasPendingFlash) ==
    IF ~isViewTrigger(trigger) /\ isFenceActive THEN FALSE
    ELSE IF isFlashActive \/ hasPendingFlash THEN FALSE
    ELSE TRUE

\* Variants of the scheduler's decision: the interval asked of every trigger
\* (as scheduleCue of the older plugin class does), asked with <=, and not asked.
canScheduleFlashBlanketInterval(trigger, state) ==
    IF ~shouldAllowFlash(trigger, state.isFenceActive, state.isFlashActive, state.hasPendingFlash)
    THEN FALSE
    ELSE IF state.now - state.lastViewChange < MinIntervalMs
    THEN FALSE
    ELSE TRUE

canScheduleFlashIntervalInclusive(trigger, state) ==
    IF ~shouldAllowFlash(trigger, state.isFenceActive, state.isFlashActive, state.hasPendingFlash)
    THEN FALSE
    ELSE IF ~isViewTrigger(trigger) /\ state.now - state.lastViewChange <= MinIntervalMs
    THEN FALSE
    ELSE TRUE

canScheduleFlashNoInterval(trigger, state) ==
    shouldAllowFlash(trigger, state.isFenceActive, state.isFlashActive, state.hasPendingFlash)

canScheduleFlash(trigger, state) ==
    IF ~shouldAllowFlash(trigger, state.isFenceActive, state.isFlashActive, state.hasPendingFlash)
    THEN FALSE
    ELSE IF ~isViewTrigger(trigger) /\ state.now - state.lastViewChange < MinIntervalMs
    THEN FALSE
    ELSE TRUE

\* Variant: the two debounce times the wrong way round.
calculateScrollDebounceTimeSwapped(scrollDelta) ==
    IF FracLess(scrollDelta, SmallScrollDelta) THEN ShortDebounceMs ELSE LongDebounceMs

\* Variant: a delta of exactly SmallScrollDelta still counts as small.
calculateScrollDebounceTimeInclusive(scrollDelta) ==
    IF scrollDelta.num <= SmallScrollDelta * scrollDelta.den
    THEN LongDebounceMs ELSE ShortDebounceMs

calculateScrollDebounceTime(scrollDelta) ==
    IF FracLess(scrollDelta, SmallScrollDelta) THEN LongDebounceMs ELSE ShortDebounceMs

getScrollDebounceTime(scrollDelta) == calculateScrollDebounceTime(scrollDelta)

(***************************************************************************)
(* Host timers.                                                            *)
(***************************************************************************)
Ids(q) == {q[i].id : i \in 1..Len(q)}

\* The id of a new timer: one that no live timer has.  The field that kept
\* the previous id of this purpose is overwritten with the new one.
FreshId(q, kind) ==
    Handle(kind, CHOOSE n \in 1..(Len(q) + 1) :
                    /\ Handle(kind, n) \notin Ids(q)
                    /\ \A m \in 1..(n - 1) : Handle(kind, m) \in Ids(q))

\* The queue is kept in the order the host runs it: by due time, and among
\* timers due together in the order they were armed.
setTimeout(q, id, kind, delay) ==
    LET t == Timer(id, kind, now + delay, delay)
        k == Cardinality({i \in 1..Len(q) : q[i].due <= t.due})
    IN SubSeq(q, 1, k) \o << t >> \o SubSeq(q, k + 1, Len(q))

RemoveAt(q, i) == SubSeq(q, 1, i - 1) \o SubSeq(q, i + 1, Len(q))

\* clearTimeout of a handle that is not live (fired or cancelled) does nothing
\* Variant: the timer is left in the queue.
clearTimeoutLeaving(q, h) == q

clearTimeout(q, h) ==
    IF \E i \in 1..Len(q) : q[i].id = h
    THEN RemoveAt(q, CHOOSE i \in 1..Len(q) : q[i].id = h)
    ELSE q

Live(kind) == {i \in 1..Len(timers) : timers[i].kind = kind}

\* A timer runs once it is due; a timer armed earlier with a delay that is
\* not longer runs before it.
CanFire(i) ==
    /\ i \in 1..Len(timers)
    /\ timers[i].due <= now
    /\ \A j \in 1..(i - 1) : timers[j].delay > timers[i].delay

(***************************************************************************)
(* scheduleFlash, on the fields it reads and writes.                       *)
(***************************************************************************)
SchedFields ==
    [lastViewChange |-> lastViewChange, flashTimeout |-> flashTimeout,
     pendingFlashTrigger |-> pendingFlashTrigger, timers |-> timers]

\* Variant: the pending flash is left out of the state the scheduler is asked with.
FlashStateOfNoPending(s) ==
    [isFenceActive |-> clickFenceActive,
     isFlashActive |-> flashActive,
     hasPendingFlash |-> FALSE,
     lastViewChange |-> s.lastViewChange,
     now |-> now]

\* Variant: the scroll-suppression window counts as an active flash.
FlashStateOfInWindow(s) ==
    [isFenceActive |-> clickFenceActive,
     isFlashActive |-> flashActive \/ now < scrollFlashSuppressedUntil,
     hasPendingFlash |-> s.pendingFlashTrigger # NoTrigger,
     lastViewChange |-> s.lastViewChange,
     now |-> now]

FlashStateOf(s) ==
    [isFenceActive |-> clickFenceActive,
     isFlashActive |-> flashActive,
     hasPendingFlash |-> s.pendingFlashTrigger # NoTrigger,
     lastViewChange |-> s.lastViewChange,
     now |-> now]

\* Variant: the trigger is scheduled without asking the scheduler.
scheduleFlashUngated(s, trigger, isMouseClick) ==
    IF isMouseClick THEN s
    ELSE LET cleared == IF s.flashTimeout # NULL
                        THEN clearTimeout(s.timers, s.flashTimeout) ELSE s.timers
             id == FreshId(cleared, "flash")
         IN [s EXCEPT !.lastViewChange = now,
                      !.pendingFlashTrigger = trigger,
                      !.flashTimeout = id,
                      !.timers = setTimeout(cleared, id, "flash", AdmissionDelayMs)]

\* Variant: the time of the admission is not recorded.
scheduleFlashUnstamped(s, trigger, isMouseClick) ==
    IF isMouseClick THEN s
    ELSE LET state == FlashStateOf(s) IN
         IF ~canScheduleFlash(trigger, state) THEN s
         ELSE LET cleared == IF s.flashTimeout # NULL
                             THEN clearTimeout(s.timers, s.flashTimeout)
                             ELSE s.timers
                  id == FreshId(cleared, "flash")
              IN [s EXCEPT
                    !.pendingFlashTrigger = trigger,
                    !.flashTimeout = id,
                    !.timers = setTimeout(cleared, id, "flash", AdmissionDelayMs)]

\* Variant: the time of the call is recorded before the scheduler is asked.
scheduleFlashStampingFirst(s, trigger, isMouseClick) ==
    IF isMouseClick THEN s
    ELSE LET state == FlashStateOf(s) IN
         IF ~canScheduleFlash(trigger, state) THEN [s EXCEPT !.lastViewChange = state.now]
         ELSE LET cleared == IF s.flashTimeout # NULL
                             THEN clearTimeout(s.timers, s.flashTimeout)
                             ELSE s.timers
                  id == FreshId(cleared, "flash")
              IN [s EXCEPT
                    !.lastViewChange = state.now,
                    !.pendingFlashTrigger = trigger,
                    !.flashTimeout = id,
                    !.timers = setTimeout(cleared, id, "flash", AdmissionDelayMs)]

\* Variant: the flash is shown after the minimum interval, not the admission delay.
scheduleFlashShownLate(s, trigger, isMouseClick) ==
    IF isMouseClick THEN s
    ELSE LET state == FlashStateOf(s) IN
         IF ~canScheduleFlash(trigger, state) THEN s
         ELSE LET cleared == IF s.flashTimeout # NULL
                             THEN clearTimeout(s.timers, s.flashTimeout)
                             ELSE s.timers
                  id == FreshId(cleared, "flash")
              IN [s EXCEPT
                    !.lastViewChange = state.now,
                    !.pendingFlashTrigger = trigger,
                    !.flashTimeout = id,
                    !.timers = setTimeout(cleared, id, "flash", MinIntervalMs)]

scheduleFlash(s, trigger, isMouseClick) ==
    IF isMouseClick THEN s
    ELSE LET state == FlashStateOf(s) IN
         IF ~canScheduleFlash(trigger, state) THEN s
         ELSE LET cleared == IF s.flashTimeout # NULL
                             THEN clearTimeout(s.timers, s.flashTimeout)
                             ELSE s.timers
                  id == FreshId(cleared, "flash")
              IN [s EXCEPT
                    !.lastViewChange = state.now,
                    !.pendingFlashTrigger = trigger,
                    !.flashTimeout = id,
                    !.timers = setTimeout(cleared, id, "flash", AdmissionDelayMs)]

Scheduled(r) ==
    /\ lastViewChange' = r.lastViewChange
    /\ flashTimeout' = r.flashTimeout
    /\ pendingFlashTrigger' = r.pendingFlashTrigger
    /\ timers' = r.timers

(***************************************************************************)
(* Construction.                                                           *)
(***************************************************************************)
DEFAULT_SETTINGS ==
    [customCursorMode |-> "always", lineHighlightMode |-> "centered", lineDuration |-> 500,
     flashOnWindowScrolls |-> TRUE, flashOnWindowChanges |-> TRUE]

NoProbe ==
    [op |-> "none", trigger |-> NoTrigger,
     state |-> [isFenceActive |-> FALSE, isFlashActive |-> FALSE, hasPendingFlash |-> FALSE,
                lastViewChange |-> 0, now |-> 0],
     delta |-> Frac(0, 1), done |-> FALSE, allowed |-> FALSE, debounce |-> 0]

Constructed ==
    /\ timers = << >>
    /\ raf1 = << >>
    /\ raf2 = << >>
    /\ overlays = 0
    /\ unloaded = FALSE
    /\ lastViewChange = now - MinIntervalMs     \* 0, the epoch: out of the window
    /\ flashTimeout = NULL
    /\ resetFlashTimeout = NULL
    /\ scrollDebounceTimer = NULL
    /\ lastScrollPosition = 0
    /\ flashActive = FALSE
    /\ clickFenceActive = FALSE
    /\ pendingFlashTrigger = NoTrigger
    /\ scrollFlashSuppressedUntil = now         \* 0, the epoch: not ahead

\* The editor views of the workspace.  Each has its own instance of the
\* decoration plugin; shown[v]: the custom cursor decoration of view v is
\* displayed; focus: the view that has the focus and is the active view;
\* resetView: the editorView the reset callback of the latest flash closes over.
Views == {1, 2}
NoView == 0
EditorsAtLoad == [focus |-> 1, shown |-> [v \in Views |-> FALSE], resetView |-> NoView]

\* Cursor geometry.  top: what coordsAtPos(...).top yields now; admitted: what
\* it yielded when the latest trigger was admitted; painted: the top of the
\* latest overlay.
Tops == {0, 1}
NoTop == -1
LayoutAtLoad == [top |-> 0, admitted |-> NoTop, painted |-> NoTop]

\* no scroll gesture is followed
NoGesture == [phase |-> "idle", elapsed |-> 0, expect |-> 0, painted |-> FALSE, coords |-> FALSE]

\* the observers before anything has happened
NothingObserved ==
    /\ overlayRemoved = FALSE
    /\ scenarioA = "idle"
    /\ scenarioB = "idle"
    /\ burstLast = now - ScrollSuppressMs
    /\ pointer = "up"
    /\ tailLeft = 0
    /\ duplicate = "idle"
    /\ gesture = NoGesture
    /\ editors = EditorsAtLoad
    /\ body = {}
    /\ layout = LayoutAtLoad

Init ==
    /\ Constructed
    /\ settings \in {[DEFAULT_SETTINGS EXCEPT !.lineDuration = d] : d \in LineDurations}
    /\ probe = NoProbe
    /\ NothingObserved

(***************************************************************************)
(* Host events and timer callbacks.                                        *)
(***************************************************************************)
PassTime ==
    /\ \A i \in 1..Len(timers) : timers[i].due > now
    /\ raf1 = << >> /\ raf2 = << >>
    /\ timers' = [i \in 1..Len(timers) |-> [timers[i] EXCEPT !.due = @ - Tick]]
    /\ lastViewChange' = Aged(lastViewChange, now - MinIntervalMs)
    /\ scrollFlashSuppressedUntil' = Aged(scrollFlashSuppressedUntil, now)
    /\ UNCHANGED << hostVars, flashTimeout, resetFlashTimeout, scrollDebounceTimer,
                    lastScrollPosition, flashActive, clickFenceActive, pendingFlashTrigger >>

\* Variant: only an active flash suppresses a scroll event.
scrollSuppressedWhileActive == flashActive

\* Variant: only the suppression window suppresses a scroll event.
scrollSuppressedInWindow == now < scrollFlashSuppressedUntil

\* the scroll handler's test for the suppression branch
scrollSuppressed == flashActive \/ now < scrollFlashSuppressedUntil

\* Variant: the window is as short as the long debounce.
extendedSuppressionShort == now + LongDebounceMs

\* the end of the suppression window a suppressed scroll event sets
extendedSuppression == now + ScrollSuppressMs

\* scroll handler of createDOMEventHandlers
\* Variant: the scroll position is recorded before the setting is looked at.
ScrollRecordedFirst ==
    /\ ~unloaded
    /\ \E currentScrollPos \in ScrollTops :
        /\ lastScrollPosition' = currentScrollPos
        /\ IF ~settings.flashOnWindowScrolls \/ scrollSuppressed
           THEN UNCHANGED << timers, scrollFlashSuppressedUntil, scrollDebounceTimer >>
           ELSE LET scrollDelta == Frac(Abs(currentScrollPos - lastScrollPosition), 1)
                    cleared == IF scrollDebounceTimer # NULL
                               THEN clearTimeout(timers, scrollDebounceTimer)
                               ELSE timers
                    id == FreshId(cleared, "debounce")
                IN /\ timers' = setTimeout(cleared, id, "debounce",
                                           getScrollDebounceTime(scrollDelta))
                   /\ scrollDebounceTimer' = id
                   /\ UNCHANGED scrollFlashSuppressedUntil
    /\ UNCHANGED << hostVars, lastViewChange, flashTimeout, resetFlashTimeout, flashActive,
                    clickFenceActive, pendingFlashTrigger >>

\* the scroll handler of the editor extension
Scroll ==
    /\ ~unloaded
    /\ \E currentScrollPos \in ScrollTops :
        IF ~settings.flashOnWindowScrolls
        THEN UNCHANGED << timers, lastScrollPosition, scrollFlashSuppressedUntil, scrollDebounceTimer >>
        ELSE LET scrollDelta == Frac(Abs(currentScrollPos - lastScrollPosition), 1) IN
             /\ lastScrollPosition' = currentScrollPos
             /\ IF scrollSuppressed
                THEN /\ scrollFlashSuppressedUntil' = extendedSuppression
                     /\ IF scrollDebounceTimer # NULL
                        THEN /\ timers' = clearTimeout(timers, scrollDebounceTimer)
                             /\ scrollDebounceTimer' = NULL
                        ELSE UNCHANGED << timers, scrollDebounceTimer >>
                ELSE LET cleared == IF scrollDebounceTimer # NULL
                                    THEN clearTimeout(timers, scrollDebounceTimer)
                                    ELSE timers
                         debounceTime == getScrollDebounceTime(scrollDelta)
                         id == FreshId(cleared, "debounce")
                     IN /\ timers' = setTimeout(cleared, id, "debounce", debounceTime)
                        /\ scrollDebounceTimer' = id
                        /\ UNCHANGED scrollFlashSuppressedUntil
    /\ UNCHANGED << hostVars, lastViewChange, flashTimeout, resetFlashTimeout, flashActive,
                    clickFenceActive, pendingFlashTrigger >>

\* Variant: a scroll that is not admitted is tried again after the short
\* debounce time.
DebounceFireRetrying ==
    \E i \in Live("debounce") :
        /\ CanFire(i)
        /\ LET rest == RemoveAt(timers, i)
               r == scheduleFlash([SchedFields EXCEPT !.timers = rest], "scroll", FALSE)
           IN IF r = [SchedFields EXCEPT !.timers = rest]
              THEN /\ timers' = setTimeout(rest, timers[i].id, "debounce", ShortDebounceMs)
                   /\ UNCHANGED << lastViewChange, flashTimeout, pendingFlashTrigger,
                                   scrollDebounceTimer >>
              ELSE /\ Scheduled(r)
                   /\ scrollDebounceTimer' = NULL
        /\ UNCHANGED << hostVars, resetFlashTimeout, lastScrollPosition, flashActive,
                        clickFenceActive, scrollFlashSuppressedUntil >>

\* callback of the scroll debounce timer
DebounceFire ==
    \E i \in Live("debounce") :
        /\ CanFire(i)
        /\ LET r == scheduleFlash([SchedFields EXCEPT !.timers = RemoveAt(timers, i)],
                                  "scroll", FALSE)
           IN Scheduled(r)
        /\ scrollDebounceTimer' = NULL
        /\ UNCHANGED << hostVars, resetFlashTimeout, lastScrollPosition, flashActive,
                        clickFenceActive, scrollFlashSuppressedUntil >>

\* room for one more animation-frame callback
RafRoom(limit) == Len(raf1) + Len(raf2) < limit

\* workspace 'active-leaf-change': scheduleFlash after two animation frames
ActiveLeafChange ==
    /\ ~unloaded
    /\ raf1' = IF settings.flashOnWindowChanges THEN Append(raf1, "view-change") ELSE raf1
    /\ UNCHANGED << timers, raf2, overlays, settings, unloaded, lastViewChange,
                    flashTimeout, resetFlashTimeout, scrollDebounceTimer, lastScrollPosition,
                    flashActive, clickFenceActive, pendingFlashTrigger,
                    scrollFlashSuppressedUntil >>

\* workspace 'layout-change': scheduleFlash after two animation frames
LayoutChange ==
    /\ ~unloaded
    /\ raf1' = IF settings.flashOnWindowChanges THEN Append(raf1, "layout-change") ELSE raf1
    /\ UNCHANGED << timers, raf2, overlays, settings, unloaded, lastViewChange,
                    flashTimeout, resetFlashTimeout, scrollDebounceTimer, lastScrollPosition,
                    flashActive, clickFenceActive, pendingFlashTrigger,
                    scrollFlashSuppressedUntil >>

RECURSIVE RunFrame(_, _)
RunFrame(s, callbacks) ==
    IF callbacks = << >> THEN s
    ELSE RunFrame(scheduleFlash(s, Head(callbacks), FALSE), Tail(callbacks))

\* One animation frame: the inner callbacks registered during the previous
\* frame call scheduleFlash, then the outer callbacks register their inner ones.
AnimationFrame ==
    /\ raf1 # << >> \/ raf2 # << >>
    /\ LET r == RunFrame(SchedFields, raf2)
       IN Scheduled(r)
    /\ raf2' = raf1
    /\ raf1' = << >>
    /\ UNCHANGED << overlays, settings, unloaded, resetFlashTimeout, scrollDebounceTimer,
                    lastScrollPosition, flashActive, clickFenceActive,
                    scrollFlashSuppressedUntil >>

fenceFrame == << timers, hostVars, lastViewChange, flashTimeout, resetFlashTimeout,
                 scrollDebounceTimer, lastScrollPosition, flashActive, pendingFlashTrigger,
                 scrollFlashSuppressedUntil >>

\* boundStartFence
PointerDown ==
    /\ ~unloaded
    /\ clickFenceActive' = TRUE
    /\ UNCHANGED fenceFrame

\* room for one more fence-release timer
FenceRoom(limit) == Cardinality(Live("fence")) < limit

\* Variant: the fence is lowered at once.
boundEndFenceSoonAtOnce ==
    /\ clickFenceActive' = FALSE
    /\ UNCHANGED << timers, hostVars, lastViewChange, flashTimeout, resetFlashTimeout,
                    scrollDebounceTimer, lastScrollPosition, flashActive,
                    pendingFlashTrigger, scrollFlashSuppressedUntil >>

\* boundEndFenceSoon: the handle setTimeout returns is dropped
boundEndFenceSoon ==
    /\ timers' = setTimeout(timers, Unkept("fence"), "fence", FenceTailMs)
    /\ UNCHANGED << hostVars, lastViewChange, flashTimeout, resetFlashTimeout,
                    scrollDebounceTimer, lastScrollPosition, flashActive, clickFenceActive,
                    pendingFlashTrigger, scrollFlashSuppressedUntil >>

\* 'pointerup' listener
PointerUp == ~unloaded /\ boundEndFenceSoon

\* 'pointercancel' listener
PointerCancel == ~unloaded /\ boundEndFenceSoon

\* 'click' listener
boundClickEndFence == ~unloaded /\ boundEndFenceSoon

\* Variant: the release of the fence also ends the flash.
FenceReleaseFireEndingFlash ==
    \E i \in Live("fence") :
        /\ CanFire(i)
        /\ timers' = RemoveAt(timers, i)
        /\ clickFenceActive' = FALSE
        /\ flashActive' = FALSE
        /\ UNCHANGED << hostVars, lastViewChange, flashTimeout, resetFlashTimeout,
                        scrollDebounceTimer, lastScrollPosition,
                        pendingFlashTrigger, scrollFlashSuppressedUntil >>

\* callback of a fence-release timer
FenceReleaseFire ==
    \E i \in Live("fence") :
        /\ CanFire(i)
        /\ timers' = RemoveAt(timers, i)
        /\ clickFenceActive' = FALSE
        /\ UNCHANGED << hostVars, lastViewChange, flashTimeout, resetFlashTimeout,
                        scrollDebounceTimer, lastScrollPosition, flashActive,
                        pendingFlashTrigger, scrollFlashSuppressedUntil >>

\* Variant: the overlay outlives the flash by the time of a fade-out.
renderLingering(q, duration) ==
    setTimeout(q, Unkept("remove"), "remove", duration + MinIntervalMs)

\* FlashRenderer.render: the overlay is attached (counted by the caller) and
\* the timer that removes it is armed; the timer's handle is dropped.
render(q, duration) ==
    setTimeout(q, Unkept("remove"), "remove", duration)

\* Variant: the reset timer is armed with the admission delay.
scheduleResetAfterAdmissionDelay(q, id, delayMs) == setTimeout(q, id, "reset", AdmissionDelayMs)

\* Variant: no reset timer is armed.
scheduleResetDropped(q, id, delayMs) == q

\* FlashScheduler.scheduleReset
scheduleReset(q, id, delayMs) == setTimeout(q, id, "reset", delayMs)

\* Variant: the pending trigger is cleared only when showFlash found a view.
showFlashCallbackKeepingPending(hasView, hasCoords) ==
    \E i \in Live("flash") :
        /\ CanFire(i)
        /\ IF ~hasView
           THEN /\ timers' = RemoveAt(timers, i)
                /\ UNCHANGED << scrollDebounceTimer, overlays, flashActive, resetFlashTimeout,
                                pendingFlashTrigger >>
           ELSE LET t1 == RemoveAt(timers, i)
                    t2 == IF scrollDebounceTimer # NULL
                          THEN clearTimeout(t1, scrollDebounceTimer) ELSE t1
                    painted == settings.lineHighlightMode # "off" /\ hasCoords
                    t3 == IF painted THEN render(t2, settings.lineDuration) ELSE t2
                    t4 == IF resetFlashTimeout # NULL
                          THEN clearTimeout(t3, resetFlashTimeout) ELSE t3
                    id == FreshId(t4, "reset")
                IN /\ pendingFlashTrigger' = NoTrigger
                   /\ scrollDebounceTimer' = NULL
                   /\ overlays' = IF painted THEN overlays + 1 ELSE overlays
                   /\ flashActive' = TRUE
                   /\ timers' = scheduleReset(t4, id, settings.lineDuration)
                   /\ resetFlashTimeout' = id
        /\ UNCHANGED << raf1, raf2, settings, unloaded, lastViewChange, flashTimeout,
                        lastScrollPosition, clickFenceActive, scrollFlashSuppressedUntil >>

\* Callback of the admission-delay timer: showFlash, then the pending trigger
\* is cleared.  hasView: the active view is a Markdown view with an editor;
\* hasCoords: coordsAtPos yields coordinates.
showFlashCallback(hasView, hasCoords) ==
    \E i \in Live("flash") :
        /\ CanFire(i)
        /\ pendingFlashTrigger' = NoTrigger
        /\ IF ~hasView
           THEN /\ timers' = RemoveAt(timers, i)
                /\ UNCHANGED << scrollDebounceTimer, overlays, flashActive, resetFlashTimeout >>
           ELSE LET t1 == RemoveAt(timers, i)
                    t2 == IF scrollDebounceTimer # NULL
                          THEN clearTimeout(t1, scrollDebounceTimer) ELSE t1
                    painted == settings.lineHighlightMode # "off" /\ hasCoords
                    t3 == IF painted THEN render(t2, settings.lineDuration) ELSE t2
                    t4 == IF resetFlashTimeout # NULL
                          THEN clearTimeout(t3, resetFlashTimeout) ELSE t3
                    id == FreshId(t4, "reset")
                IN /\ scrollDebounceTimer' = NULL
                   /\ overlays' = IF painted THEN overlays + 1 ELSE overlays
                   /\ flashActive' = TRUE
                   /\ timers' = scheduleReset(t4, id, settings.lineDuration)
                   /\ resetFlashTimeout' = id
        /\ UNCHANGED << raf1, raf2, settings, unloaded, lastViewChange, flashTimeout,
                        lastScrollPosition, clickFenceActive, scrollFlashSuppressedUntil >>

\* the admission-delay timer fires, in whatever state the host is
FlashTimeoutFire ==
    \E hasView \in BOOLEAN, hasCoords \in BOOLEAN : showFlashCallback(hasView, hasCoords)

\* callback of the reset timer
ResetFire ==
    \E i \in Live("reset") :
        /\ CanFire(i)
        /\ timers' = RemoveAt(timers, i)
        /\ flashActive' = FALSE
        /\ UNCHANGED << hostVars, lastViewChange, flashTimeout, resetFlashTimeout,
                        scrollDebounceTimer, lastScrollPosition, clickFenceActive,
                        pendingFlashTrigger, scrollFlashSuppressedUntil >>

\* callback of the timer FlashRenderer.render arms: element.remove()
OverlayRemoveFire ==
    \E i \in Live("remove") :
        /\ CanFire(i)
        /\ timers' = RemoveAt(timers, i)
        /\ overlays' = overlays - 1
        /\ UNCHANGED << raf1, raf2, settings, unloaded, lastViewChange, flashTimeout,
                        resetFlashTimeout, scrollDebounceTimer, lastScrollPosition,
                        flashActive, clickFenceActive, pendingFlashTrigger,
                        scrollFlashSuppressedUntil >>

onunload ==
    /\ ~unloaded
    /\ unloaded' = TRUE
    /\ LET t1 == IF flashTimeout # NULL THEN clearTimeout(timers, flashTimeout) ELSE timers
           t2 == IF resetFlashTimeout # NULL THEN clearTimeout(t1, resetFlashTimeout) ELSE t1
           t3 == IF scrollDebounceTimer # NULL THEN clearTimeout(t2, scrollDebounceTimer) ELSE t2
       IN timers' = t3
    /\ UNCHANGED << raf1, raf2, overlays, settings, lastViewChange, flashTimeout,
                    resetFlashTimeout, scrollDebounceTimer, lastScrollPosition, flashActive,
                    clickFenceActive, pendingFlashTrigger, scrollFlashSuppressedUntil >>

(***************************************************************************)
(* The plugin at work: host events, animation frames, timers and the clock. *)
(***************************************************************************)
Next ==
    \/ PassTime /\ UNCHANGED observers
    \/ Scroll /\ UNCHANGED observers
    \/ DebounceFire /\ UNCHANGED observers
    \/ RafRoom(MaxRaf) /\ ActiveLeafChange /\ UNCHANGED observers
    \/ RafRoom(MaxRaf) /\ LayoutChange /\ UNCHANGED observers
    \/ AnimationFrame /\ UNCHANGED observers
    \/ PointerDown /\ UNCHANGED observers
    \/ FenceRoom(MaxFenceTimers) /\ PointerUp /\ UNCHANGED observers
    \/ FenceRoom(MaxFenceTimers) /\ PointerCancel /\ UNCHANGED observers
    \/ FenceRoom(MaxFenceTimers) /\ boundClickEndFence /\ UNCHANGED observers
    \/ FenceReleaseFire /\ UNCHANGED observers
    \/ FlashTimeoutFire /\ UNCHANGED observers
    \/ ResetFire /\ UNCHANGED observers
    \/ OverlayRemoveFire /\ UNCHANGED observers

Spec == Init /\ [][Next]_vars

\* the admission-delay timer has just been armed
FlashArmed(q) ==
    \E i \in 1..Len(q) : q[i].kind = "flash" /\ q[i].due = now + AdmissionDelayMs

\* A step in which scheduleFlash admits a trigger.
Admitted ==
    /\ lastViewChange' = now
    /\ pendingFlashTrigger' # NoTrigger
    /\ FlashArmed(timers')
    /\ ~(/\ lastViewChange = now
         /\ FlashArmed(timers)
         /\ pendingFlashTrigger' = pendingFlashTrigger)

LiveIn(q, kind) == {i \in 1..Len(q) : q[i].kind = kind}

(***************************************************************************)
(* The plugin at work, with an observer of scenario A:                     *)
(*   idle -> admitted        a view-change is admitted under the fence      *)
(*   admitted -> active      its flash is shown                             *)
(*   active -> scrollRejected  a scroll arrives while it is active and      *)
(*                           leads to no admission                          *)
(*   scrollRejected -> reset the reset timer of that flash fires            *)
(*   reset -> readmitted     a scroll is admitted, the fence released       *)
(* The observer turns to "violated" when a step of the scenario has another *)
(* outcome, and back to idle when the run leaves the scenario.              *)
(***************************************************************************)
ScenarioUnchanged == UNCHANGED observers

notScenarioA == << probe, gesture, overlayRemoved, scenarioB, burstLast, pointer, tailLeft,
                  duplicate, editorVars >>

ObserveFrame ==
    /\ scenarioA' =
          IF /\ raf2 # << >>
             /\ raf2[1] = "view-change"
             /\ clickFenceActive /\ ~flashActive /\ pendingFlashTrigger = NoTrigger
          THEN IF Admitted /\ pendingFlashTrigger' = "view-change"
               THEN "admitted" ELSE "violated"
          ELSE IF Admitted
          THEN IF scenarioA \in {"active", "scrollRejected"} THEN "violated" ELSE "idle"
          ELSE scenarioA
    /\ UNCHANGED notScenarioA

ObserveFlashTimeout ==
    /\ scenarioA' =
          IF scenarioA = "admitted" THEN (IF flashActive' THEN "active" ELSE "idle")
          ELSE IF scenarioA = "readmitted" THEN "idle"
          ELSE scenarioA
    /\ UNCHANGED notScenarioA

ObserveScroll ==
    /\ scenarioA' =
          IF scenarioA \in {"active", "scrollRejected"}
          THEN IF LiveIn(timers', "debounce") = {} /\ ~Admitted
               THEN "scrollRejected" ELSE "violated"
          ELSE scenarioA
    /\ UNCHANGED notScenarioA

ObserveDebounce ==
    /\ scenarioA' =
          IF scenarioA \in {"active", "scrollRejected"}
          THEN IF Admitted THEN "violated" ELSE "scrollRejected"
          ELSE IF scenarioA = "reset" /\ ~clickFenceActive
          THEN IF Admitted /\ pendingFlashTrigger' = "scroll"
               THEN "readmitted" ELSE "violated"
          ELSE scenarioA
    /\ UNCHANGED notScenarioA

ObserveReset ==
    /\ scenarioA' =
          IF scenarioA = "scrollRejected" THEN "reset"
          ELSE IF scenarioA = "active" THEN "idle"
          ELSE scenarioA
    /\ UNCHANGED notScenarioA

NextScenarioA ==
    \/ PassTime /\ ScenarioUnchanged
    \/ Scroll /\ ObserveScroll
    \/ DebounceFire /\ ObserveDebounce
    \/ RafRoom(MaxRaf) /\ ActiveLeafChange /\ ScenarioUnchanged
    \/ RafRoom(MaxRaf) /\ LayoutChange /\ ScenarioUnchanged
    \/ AnimationFrame /\ ObserveFrame
    \/ PointerDown /\ ScenarioUnchanged
    \/ FenceRoom(MaxFenceTimers) /\ PointerUp /\ ScenarioUnchanged
    \/ FenceRoom(MaxFenceTimers) /\ PointerCancel /\ ScenarioUnchanged
    \/ FenceRoom(MaxFenceTimers) /\ boundClickEndFence /\ ScenarioUnchanged
    \/ FenceReleaseFire /\ ScenarioUnchanged
    \/ FlashTimeoutFire /\ ObserveFlashTimeout
    \/ ResetFire /\ ObserveReset
    \/ OverlayRemoveFire /\ ScenarioUnchanged

SpecScenarioA == Init /\ [][NextScenarioA]_vars

(***************************************************************************)
(* The plugin at work, with an observer of scenario B:                     *)
(*   idle -> first       a scroll of 2 px reaches the idle plugin and arms  *)
(*                       a 250 ms debounce timer                            *)
(*   first -> second     a scroll of 80 px, before that timer fires,        *)
(*                       replaces it by a 150 ms timer                      *)
(*   second -> attempted the timer fires: the one admission attempt         *)
(*   attempted -> flashed  the flash is shown                               *)
(*   flashed -> done     its reset timer fires and nothing else is under way *)
(* The observer turns to "violated" when a step of the scenario has another *)
(* outcome, and back to idle when another event comes in between.           *)
(***************************************************************************)
PluginIdle ==
    /\ ~flashActive /\ pendingFlashTrigger = NoTrigger /\ ~clickFenceActive
    /\ Live("debounce") = {} /\ Live("flash") = {} /\ Live("reset") = {}
    /\ scrollFlashSuppressedUntil <= now

\* the debounce timers of q are exactly one, armed just now with this delay
OneDebounce(q, delay) ==
    /\ Cardinality(LiveIn(q, "debounce")) = 1
    /\ \A i \in LiveIn(q, "debounce") : q[i].delay = delay /\ q[i].due = now + delay

NothingUnderWay(q) ==
    LiveIn(q, "debounce") = {} /\ LiveIn(q, "flash") = {}

notScenarioB == << probe, gesture, overlayRemoved, scenarioA, burstLast, pointer, tailLeft,
                  duplicate, editorVars >>

ObserveScrollB ==
    /\ scenarioB' =
          IF scenarioB = "violated" THEN "violated"
          ELSE IF PluginIdle /\ Abs(lastScrollPosition' - lastScrollPosition) = 2
          THEN IF OneDebounce(timers', 250) THEN "first" ELSE "violated"
          ELSE IF scenarioB = "first" /\ Abs(lastScrollPosition' - lastScrollPosition) = 80
          THEN IF OneDebounce(timers', 150) THEN "second" ELSE "violated"
          ELSE "idle"
    /\ UNCHANGED notScenarioB

ObserveDebounceB ==
    /\ scenarioB' =
          IF scenarioB = "second"
          THEN IF Admitted /\ pendingFlashTrigger' = "scroll" /\ LiveIn(timers', "debounce") = {}
               THEN "attempted" ELSE "violated"
          ELSE IF scenarioB \in {"attempted", "flashed", "violated"} THEN "violated"
          ELSE "idle"
    /\ UNCHANGED notScenarioB

ObserveFlashTimeoutB ==
    /\ scenarioB' =
          IF scenarioB = "attempted"
          THEN IF ~flashActive' THEN "idle"
               ELSE IF NothingUnderWay(timers') /\ overlays' <= 1 THEN "flashed"
               ELSE "violated"
          ELSE IF scenarioB = "flashed" THEN "violated"
          ELSE scenarioB
    /\ UNCHANGED notScenarioB

ObserveResetB ==
    /\ scenarioB' =
          IF scenarioB = "flashed"
          THEN IF NothingUnderWay(timers') /\ pendingFlashTrigger' = NoTrigger /\ ~flashActive'
               THEN "done" ELSE "violated"
          ELSE scenarioB
    /\ UNCHANGED notScenarioB

\* an event that is no part of the scenario
ForeignToB ==
    /\ scenarioB' = IF scenarioB = "violated" THEN "violated" ELSE "idle"
    /\ UNCHANGED notScenarioB

NextScenarioB ==
    \/ PassTime /\ UNCHANGED observers
    \/ Scroll /\ ObserveScrollB
    \/ DebounceFire /\ ObserveDebounceB
    \/ RafRoom(MaxRaf) /\ ActiveLeafChange /\ ForeignToB
    \/ RafRoom(MaxRaf) /\ LayoutChange /\ ForeignToB
    \/ AnimationFrame /\ ForeignToB
    \/ PointerDown /\ ForeignToB
    \/ FenceRoom(MaxFenceTimers) /\ PointerUp /\ ForeignToB
    \/ FenceRoom(MaxFenceTimers) /\ PointerCancel /\ ForeignToB
    \/ FenceRoom(MaxFenceTimers) /\ boundClickEndFence /\ ForeignToB
    \/ FenceReleaseFire /\ UNCHANGED observers
    \/ FlashTimeoutFire /\ ObserveFlashTimeoutB
    \/ ResetFire /\ ObserveResetB
    \/ OverlayRemoveFire /\ UNCHANGED observers

SpecScenarioB == Init /\ [][NextScenarioB]_vars

(***************************************************************************)
(* The plugin at work, with an observer of scroll bursts.  A burst begins   *)
(* with a scroll event that arrives while a flash is active and goes on as  *)
(* long as each scroll event arrives less than 300 ms after the one before; *)
(* burstLast is the time of the latest event of the burst.                  *)
(***************************************************************************)
InBurst == now - burstLast < 300

notBurst == << probe, gesture, overlayRemoved, scenarioA, scenarioB, pointer, tailLeft,
              duplicate, editorVars >>

ObserveBurstScroll ==
    /\ burstLast' = IF flashActive \/ InBurst THEN now ELSE now - 300
    /\ UNCHANGED notBurst

ObserveBurstTime ==
    /\ burstLast' = Aged(burstLast, now - 300)
    /\ UNCHANGED notBurst

NextBurst ==
    \/ PassTime /\ ObserveBurstTime
    \/ Scroll /\ ObserveBurstScroll
    \/ DebounceFire /\ UNCHANGED observers
    \/ RafRoom(MaxRaf) /\ ActiveLeafChange /\ UNCHANGED observers
    \/ RafRoom(MaxRaf) /\ LayoutChange /\ UNCHANGED observers
    \/ AnimationFrame /\ UNCHANGED observers
    \/ PointerDown /\ UNCHANGED observers
    \/ FenceRoom(MaxFenceTimers) /\ PointerUp /\ UNCHANGED observers
    \/ FenceRoom(MaxFenceTimers) /\ PointerCancel /\ UNCHANGED observers
    \/ FenceRoom(MaxFenceTimers) /\ boundClickEndFence /\ UNCHANGED observers
    \/ FenceReleaseFire /\ UNCHANGED observers
    \/ FlashTimeoutFire /\ UNCHANGED observers
    \/ ResetFire /\ UNCHANGED observers
    \/ OverlayRemoveFire /\ UNCHANGED observers

SpecBurst == Init /\ [][NextBurst]_vars

(***************************************************************************)
(* The click fence alone: the window's pointer listeners and the fence-     *)
(* release timers, with an observer of the pointer.  Pointer events come in *)
(* the order the host delivers them: pointerdown, then pointerup (and a     *)
(* click right after it) or pointercancel.  tailLeft is what is left of the *)
(* 400 ms that follow the latest pointerup, pointercancel or click.         *)
(***************************************************************************)
notPointer == << probe, gesture, overlayRemoved, scenarioA, scenarioB, burstLast, duplicate, editorVars >>

ObservePointer(after) ==
    /\ pointer' = after
    /\ tailLeft' = IF after = "down" THEN tailLeft ELSE 400
    /\ UNCHANGED notPointer

ObservePointerTime ==
    /\ pointer' = IF pointer = "released" THEN "up" ELSE pointer
    /\ tailLeft' = IF tailLeft > Tick THEN tailLeft - Tick ELSE 0
    /\ UNCHANGED notPointer

FencePassTime == PassTime /\ ObservePointerTime

FenceRelease == FenceReleaseFire /\ UNCHANGED observers

NextFence ==
    \/ FencePassTime
    \/ pointer # "down" /\ PointerDown /\ ObservePointer("down")
    \/ pointer = "down" /\ FenceRoom(MaxFencePending) /\ PointerUp /\ ObservePointer("released")
    \/ pointer = "down" /\ FenceRoom(MaxFencePending) /\ PointerCancel /\ ObservePointer("up")
    \/ pointer = "released" /\ FenceRoom(MaxFencePending) /\ boundClickEndFence
          /\ ObservePointer("up")
    \/ FenceRelease

SpecFence == Init /\ [][NextFence]_vars

\* the host runs due timer callbacks, and time passes
SpecFenceFair == SpecFence /\ WF_vars(FencePassTime) /\ WF_vars(FenceRelease)

(***************************************************************************)
(* The plugin at work, with an observer of the overlays: overlayRemoved    *)
(* becomes true when an overlay element leaves the document.               *)
(***************************************************************************)
ObserveOverlay ==
    /\ overlayRemoved' = (overlayRemoved \/ overlays' < overlays)
    /\ UNCHANGED << probe, gesture, scenarioA, scenarioB, burstLast, pointer, tailLeft,
                    duplicate, editorVars >>

NextOverlay ==
    \/ PassTime /\ ObserveOverlay
    \/ Scroll /\ ObserveOverlay
    \/ DebounceFire /\ ObserveOverlay
    \/ RafRoom(MaxRaf) /\ ActiveLeafChange /\ ObserveOverlay
    \/ RafRoom(MaxRaf) /\ LayoutChange /\ ObserveOverlay
    \/ AnimationFrame /\ ObserveOverlay
    \/ PointerDown /\ ObserveOverlay
    \/ FenceRoom(MaxFenceTimers) /\ PointerUp /\ ObserveOverlay
    \/ FenceRoom(MaxFenceTimers) /\ PointerCancel /\ ObserveOverlay
    \/ FenceRoom(MaxFenceTimers) /\ boundClickEndFence /\ ObserveOverlay
    \/ FenceReleaseFire /\ ObserveOverlay
    \/ FlashTimeoutFire /\ ObserveOverlay
    \/ ResetFire /\ ObserveOverlay
    \/ OverlayRemoveFire /\ ObserveOverlay

SpecOverlay == Init /\ [][NextOverlay]_vars

(***************************************************************************)
(* The plugin at work and its teardown.  The host stops delivering the     *)
(* workspace, editor and window events once onunload has run; timers and   *)
(* animation frames already requested stay with the host.                  *)
(***************************************************************************)
PluginTimerKinds == {"debounce", "flash", "reset", "fence"}

NextTeardown ==
    \/ PassTime /\ UNCHANGED observers
    \/ Scroll /\ UNCHANGED observers
    \/ DebounceFire /\ UNCHANGED observers
    \/ RafRoom(MaxRaf) /\ ActiveLeafChange /\ UNCHANGED observers
    \/ RafRoom(MaxRaf) /\ LayoutChange /\ UNCHANGED observers
    \/ AnimationFrame /\ UNCHANGED observers
    \/ PointerDown /\ UNCHANGED observers
    \/ FenceRoom(MaxFenceTimers) /\ PointerUp /\ UNCHANGED observers
    \/ FenceRoom(MaxFenceTimers) /\ PointerCancel /\ UNCHANGED observers
    \/ FenceRoom(MaxFenceTimers) /\ boundClickEndFence /\ UNCHANGED observers
    \/ FenceReleaseFire /\ UNCHANGED observers
    \/ FlashTimeoutFire /\ UNCHANGED observers
    \/ ResetFire /\ UNCHANGED observers
    \/ OverlayRemoveFire /\ UNCHANGED observers
    \/ onunload /\ UNCHANGED observers

SpecTeardown == Init /\ [][NextTeardown]_vars

(***************************************************************************)
(* Scroll and view triggers under each kind of line highlight, the click    *)
(* fence left aside: 'left', 'centered' and 'right' all end in             *)
(* FlashRenderer.render and are one case here; with 'off' showFlash paints  *)
(* nothing.                                                                *)
(***************************************************************************)
LineHighlightModes == {"centered", "off"}

InitShowFlash ==
    /\ Constructed
    /\ settings \in {[DEFAULT_SETTINGS EXCEPT !.lineDuration = d, !.lineHighlightMode = m] :
                        d \in LineDurations, m \in LineHighlightModes}
    /\ probe = NoProbe
    /\ NothingObserved

NextShowFlash ==
    \/ PassTime /\ UNCHANGED observers
    \/ Scroll /\ UNCHANGED observers
    \/ DebounceFire /\ UNCHANGED observers
    \/ RafRoom(MaxRaf) /\ ActiveLeafChange /\ UNCHANGED observers
    \/ RafRoom(MaxRaf) /\ LayoutChange /\ UNCHANGED observers
    \/ AnimationFrame /\ UNCHANGED observers
    \/ FlashTimeoutFire /\ UNCHANGED observers
    \/ ResetFire /\ UNCHANGED observers
    \/ OverlayRemoveFire /\ UNCHANGED observers

SpecShowFlash == InitShowFlash /\ [][NextShowFlash]_vars

\* The host's event loop: time does not stop (events and animation frames do
\* not follow one another for ever within one instant), and a timer that is
\* due runs.
SpecShowFlashFair ==
    /\ SpecShowFlash
    /\ []<><<PassTime /\ UNCHANGED observers>>_vars
    /\ WF_vars(AnimationFrame /\ UNCHANGED observers)
    /\ WF_vars(DebounceFire /\ UNCHANGED observers)
    /\ WF_vars(FlashTimeoutFire /\ UNCHANGED observers)
    /\ WF_vars(ResetFire /\ UNCHANGED observers)
    /\ WF_vars(OverlayRemoveFire /\ UNCHANGED observers)

(***************************************************************************)
(* The view triggers of the plugin and the click fence, scroll flashes left *)
(* aside, with an observer of duplicate view triggers: one                 *)
(* user action for which the workspace delivers both 'active-leaf-change'  *)
(* and 'layout-change', in either order, in one animation frame or in two. *)
(*   idle -> first     the first scheduleFlash reaches the plugin with no   *)
(*                     flash pending or active, and is admitted             *)
(*   first -> both     the second arrives while the admission-delay timer   *)
(*                     of the first is pending, and changes nothing         *)
(*   idle -> both      both arrive in one frame                             *)
(*   both -> flashed   the timer fires and the flash is painted             *)
(* The observer turns to "violated" when a step has another outcome, and    *)
(* back to idle when the run leaves the scenario.                           *)
(***************************************************************************)
notDuplicate == << probe, gesture, overlayRemoved, scenarioA, scenarioB, burstLast, pointer, tailLeft,
                   editorVars >>

OneFlashTimer(q) == Cardinality(LiveIn(q, "flash")) = 1 /\ FlashArmed(q)

ObserveDuplicateFrame ==
    /\ duplicate' =
          IF duplicate = "violated" THEN "violated"
          ELSE IF raf2 = << >> THEN duplicate
          ELSE IF ~flashActive /\ pendingFlashTrigger = NoTrigger
          THEN IF Admitted /\ pendingFlashTrigger' = raf2[1] /\ OneFlashTimer(timers')
               THEN (IF Len(raf2) > 1 THEN "both" ELSE "first")
               ELSE "violated"
          ELSE IF duplicate \in {"first", "both"}
          THEN IF /\ timers' = timers
                  /\ pendingFlashTrigger' = pendingFlashTrigger
                  /\ lastViewChange' = lastViewChange
               THEN "both" ELSE "violated"
          ELSE "idle"
    /\ UNCHANGED notDuplicate

ObserveDuplicateFlash ==
    /\ duplicate' =
          IF duplicate = "violated" THEN "violated"
          ELSE IF duplicate = "both"
          THEN IF overlays' # overlays + 1 THEN "idle"
               ELSE IF /\ LiveIn(timers', "flash") = {}
                       /\ pendingFlashTrigger' = NoTrigger
                       /\ flashActive'
               THEN "flashed" ELSE "violated"
          ELSE IF duplicate = "flashed" THEN "violated"
          ELSE "idle"
    /\ UNCHANGED notDuplicate

NextDuplicate ==
    \/ PassTime /\ UNCHANGED observers
    \/ RafRoom(MaxRafPending) /\ ActiveLeafChange /\ UNCHANGED observers
    \/ RafRoom(MaxRafPending) /\ LayoutChange /\ UNCHANGED observers
    \/ AnimationFrame /\ ObserveDuplicateFrame
    \/ PointerDown /\ UNCHANGED observers
    \/ FenceRoom(MaxFenceTimers) /\ PointerUp /\ UNCHANGED observers
    \/ FenceReleaseFire /\ UNCHANGED observers
    \/ FlashTimeoutFire /\ ObserveDuplicateFlash
    \/ ResetFire /\ UNCHANGED observers
    \/ OverlayRemoveFire /\ UNCHANGED observers

SpecDuplicate == Init /\ [][NextDuplicate]_vars

(***************************************************************************)
(* The plugin in cursor mode 'flash', with the editor views of the         *)
(* workspace.  The decoration plugin has one instance per editor view; the  *)
(* editor calls its update method, which rebuilds the decoration, on every  *)
(* transaction of that view and when the view gains or loses the focus.     *)
(* showFlash works on the editor of the active view, here the view that has *)
(* the focus, and the reset callback keeps that editor in its closure.      *)
(***************************************************************************)
pluginFrame == << timers, hostVars, lastViewChange, flashTimeout, resetFlashTimeout,
                  scrollDebounceTimer, lastScrollPosition, flashActive, clickFenceActive,
                  pendingFlashTrigger, scrollFlashSuppressedUntil >>

notEditors == << probe, gesture, overlayRemoved, scenarioA, scenarioB, burstLast, pointer, tailLeft,
                 duplicate, body, layout >>

\* buildDecorations: is the custom cursor put into the decoration set of view v
buildDecorations(ed, v, active) ==
    IF ed.focus # v THEN FALSE
    ELSE LET showAlwaysOn == settings.customCursorMode = "always"
             showFlash == settings.customCursorMode = "flash" /\ active
         IN showAlwaysOn \/ showFlash

\* update(update) of the decoration plugin instance of view v
update(ed, v, active) == [ed EXCEPT !.shown[v] = buildDecorations(ed, v, active)]

\* a transaction of view v: the selection moves, the document changes
EditorUpdate ==
    /\ \E v \in Views : editors' = update(editors, v, flashActive)
    /\ UNCHANGED pluginFrame
    /\ UNCHANGED notEditors

\* The focus moves to another editor view, or out of the editors: the view
\* that loses it and the view that gains it are updated, and the workspace
\* raises 'active-leaf-change'.
FocusChange ==
    /\ \E v \in (Views \cup {NoView}) \ {editors.focus} :
          LET moved == [editors EXCEPT !.focus = v]
          IN editors' = [moved EXCEPT !.shown =
                            [w \in Views |-> IF w \in {v, editors.focus}
                                             THEN buildDecorations(moved, w, flashActive)
                                             ELSE editors.shown[w]]]
    /\ ActiveLeafChange
    /\ UNCHANGED notEditors

\* showFlash on the editor of the active view: the reset callback closes over
\* it, and it is dispatched to when the cursor mode is 'flash'
DecorationFlash ==
    /\ \E hasCoords \in BOOLEAN : showFlashCallback(editors.focus # NoView, hasCoords)
    /\ editors' =
          IF editors.focus = NoView THEN editors
          ELSE LET kept == [editors EXCEPT !.resetView = editors.focus]
                   isViewFlashTrigger == pendingFlashTrigger = "view-change"
                                            \/ pendingFlashTrigger = "layout-change"
               IN IF /\ settings.customCursorMode = "flash"
                     /\ isViewFlashTrigger \/ ~clickFenceActive
                  THEN update(kept, editors.focus, TRUE)
                  ELSE kept
    /\ UNCHANGED notEditors

\* the reset callback: flashActive = false, then a dispatch to its editor
DecorationReset ==
    /\ ResetFire
    /\ editors' =
          IF settings.customCursorMode = "flash" /\ editors.resetView # NoView
          THEN update(editors, editors.resetView, FALSE)
          ELSE editors
    /\ UNCHANGED notEditors

InitDecoration ==
    /\ Constructed
    /\ settings \in {[DEFAULT_SETTINGS EXCEPT !.lineDuration = d, !.customCursorMode = "flash"] :
                        d \in LineDurations}
    /\ probe = NoProbe
    /\ NothingObserved

NextDecoration ==
    \/ PassTime /\ UNCHANGED observers
    \/ Scroll /\ UNCHANGED observers
    \/ DebounceFire /\ UNCHANGED observers
    \/ RafRoom(MaxRaf) /\ FocusChange
    \/ AnimationFrame /\ UNCHANGED observers
    \/ PointerDown /\ UNCHANGED observers
    \/ EditorUpdate
    \/ DecorationFlash
    \/ DecorationReset
    \/ OverlayRemoveFire /\ UNCHANGED observers

SpecDecoration == InitDecoration /\ [][NextDecoration]_vars

(***************************************************************************)
(* Where the overlay is put.  layout.top is the top of the cursor line as   *)
(* the host would report it now; it changes when the cursor moves or the    *)
(* editor is scrolled or resized.  layout.painted is the top the last       *)
(* overlay was given, and layout.admitted records, for comparison, what the *)
(* host would have reported when the last trigger was admitted.             *)
(***************************************************************************)
notLayout == << probe, gesture, overlayRemoved, scenarioA, scenarioB, burstLast, pointer, tailLeft,
                duplicate, editors, body >>

\* Variant: the top the host reported when the trigger was admitted.
coordsAtAdmission(l) == l.admitted

\* editorView.coordsAtPos(pos).top for the cursor's position, asked of the host
coordsAtPos(l) == l.top

\* the cursor line moves on the screen
GeometryChange ==
    /\ \E top \in Tops \ {layout.top} : layout' = [layout EXCEPT !.top = top]
    /\ UNCHANGED pluginFrame
    /\ UNCHANGED notLayout

\* scheduleFlash keeps the trigger and nothing of the geometry
ObserveAdmission ==
    /\ layout' = IF Admitted THEN [layout EXCEPT !.admitted = layout.top] ELSE layout
    /\ UNCHANGED notLayout

\* the timer callback: showFlash, whose helper asks for the coordinates and
\* writes them into the style of the overlay
GeometryFlash ==
    /\ FlashTimeoutFire
    /\ layout' = IF overlays' = overlays + 1
                 THEN [layout EXCEPT !.painted = coordsAtPos(layout)]
                 ELSE layout
    /\ UNCHANGED notLayout

NextGeometry ==
    \/ PassTime /\ UNCHANGED observers
    \/ Scroll /\ UNCHANGED observers
    \/ DebounceFire /\ ObserveAdmission
    \/ RafRoom(MaxRaf) /\ ActiveLeafChange /\ UNCHANGED observers
    \/ RafRoom(MaxRaf) /\ LayoutChange /\ UNCHANGED observers
    \/ AnimationFrame /\ ObserveAdmission
    \/ GeometryChange
    \/ GeometryFlash
    \/ ResetFire /\ UNCHANGED observers
    \/ OverlayRemoveFire /\ UNCHANGED observers

SpecGeometry == Init /\ [][NextGeometry]_vars

(***************************************************************************)
(* scheduleFlash called directly, with any trigger and either value of      *)
(* isMouseClick, at any moment of the plugin's work.                        *)
(***************************************************************************)
CallScheduleFlash(trigger, isMouseClick) ==
    /\ ~unloaded
    /\ Scheduled(scheduleFlash(SchedFields, trigger, isMouseClick))
    /\ UNCHANGED << hostVars, resetFlashTimeout, scrollDebounceTimer, lastScrollPosition,
                    flashActive, clickFenceActive, scrollFlashSuppressedUntil >>

\* the triggers tried: one the editor raises, one the workspace raises, one
\* the plugin itself never passes
CalledTriggers == {"scroll", "view-change", "key-navigation"}

AnyScheduleFlash == \E trigger \in CalledTriggers, isMouseClick \in BOOLEAN :
                        CallScheduleFlash(trigger, isMouseClick)

NextSchedule ==
    \/ PassTime /\ UNCHANGED observers
    \/ Scroll /\ UNCHANGED observers
    \/ DebounceFire /\ UNCHANGED observers
    \/ AnyScheduleFlash /\ UNCHANGED observers
    \/ PointerDown /\ UNCHANGED observers
    \/ FenceRoom(MaxFenceTimers) /\ PointerUp /\ UNCHANGED observers
    \/ FenceReleaseFire /\ UNCHANGED observers
    \/ FlashTimeoutFire /\ UNCHANGED observers
    \/ ResetFire /\ UNCHANGED observers
    \/ OverlayRemoveFire /\ UNCHANGED observers

SpecSchedule == Init /\ [][NextSchedule]_vars

(***************************************************************************)
(* The plugin at work, with an observer of a single scroll gesture:        *)
(*   idle -> scrolled      a scroll event reaches the plugin while no flash *)
(*                         is active or pending, the fence is down, the     *)
(*                         suppression window is over and the last          *)
(*                         admission lies MinIntervalMs back                *)
(*   scrolled -> admitted  the debounce timer runs and the scroll is        *)
(*                         admitted, the debounce time after the event      *)
(*   admitted -> flashed   showFlash runs in a Markdown view, the admission *)
(*                         delay later                                      *)
(*   flashed -> done       the reset timer runs, the duration later, and    *)
(*                         leaves no timer of the pipeline                  *)
(* elapsed is the time since the event and expect the time at which the     *)
(* flash is due; painted: showFlash attached an overlay; coords: the host   *)
(* yielded cursor coordinates.  The observer turns to "violated" when a     *)
(* step of the gesture has another outcome, and back to idle when another   *)
(* event comes in between or showFlash finds no view.                       *)
(***************************************************************************)
notGesture == << probe, overlayRemoved, scenarioA, scenarioB, burstLast, pointer, tailLeft,
                 duplicate, editorVars >>

GestureMayStart ==
    /\ ~flashActive /\ pendingFlashTrigger = NoTrigger /\ ~clickFenceActive
    /\ scrollFlashSuppressedUntil <= now
    /\ lastViewChange <= now - MinIntervalMs
    /\ raf1 = << >> /\ raf2 = << >>

GestureFollowed == gesture.phase \in {"scrolled", "admitted", "flashed"}

GestureViolated == [NoGesture EXCEPT !.phase = "violated"]

\* no debounce, admission, reset or removal timer in the queue q
NoPipelineTimer(q) == \A i \in 1..Len(q) : q[i].kind = "fence"

ObserveGestureScroll ==
    /\ gesture' =
          IF gesture.phase = "violated" THEN gesture
          ELSE IF GestureMayStart
          THEN [NoGesture EXCEPT
                  !.phase = "scrolled",
                  !.expect = getScrollDebounceTime(
                                 Frac(Abs(lastScrollPosition' - lastScrollPosition), 1))
                             + AdmissionDelayMs]
          ELSE NoGesture
    /\ UNCHANGED notGesture

ObserveGestureTime ==
    /\ gesture' = IF GestureFollowed THEN [gesture EXCEPT !.elapsed = @ + Tick] ELSE gesture
    /\ UNCHANGED notGesture

ObserveGestureDebounce ==
    /\ gesture' =
          IF gesture.phase = "scrolled"
          THEN IF Admitted /\ pendingFlashTrigger' = "scroll"
                  /\ gesture.elapsed = gesture.expect - AdmissionDelayMs
               THEN [gesture EXCEPT !.phase = "admitted"]
               ELSE GestureViolated
          ELSE IF gesture.phase \in {"admitted", "flashed", "done"} THEN GestureViolated
          ELSE gesture
    /\ UNCHANGED notGesture

\* the admission timer runs: showFlash, seen with what the host gave it
GestureFlash ==
    \E hasView \in BOOLEAN, hasCoords \in BOOLEAN :
        /\ showFlashCallback(hasView, hasCoords)
        /\ gesture' =
              IF gesture.phase = "admitted"
              THEN IF ~hasView THEN NoGesture
                   ELSE IF flashActive' /\ gesture.elapsed = gesture.expect
                   THEN [gesture EXCEPT !.phase = "flashed",
                                        !.painted = (overlays' = overlays + 1),
                                        !.coords = hasCoords]
                   ELSE GestureViolated
              ELSE IF gesture.phase \in {"scrolled", "flashed", "done"} THEN GestureViolated
              ELSE gesture
        /\ UNCHANGED notGesture

ObserveGestureReset ==
    /\ gesture' =
          IF gesture.phase = "flashed"
          THEN IF /\ gesture.elapsed = gesture.expect + settings.lineDuration
                  /\ ~flashActive' /\ pendingFlashTrigger' = NoTrigger
                  /\ NoPipelineTimer(timers')
               THEN [gesture EXCEPT !.phase = "done"]
               ELSE GestureViolated
          ELSE gesture
    /\ UNCHANGED notGesture

\* an event that is no part of the gesture
ForeignToGesture ==
    /\ gesture' = IF gesture.phase = "violated" THEN gesture ELSE NoGesture
    /\ UNCHANGED notGesture

NextGesture ==
    \/ PassTime /\ ObserveGestureTime
    \/ Scroll /\ ObserveGestureScroll
    \/ DebounceFire /\ ObserveGestureDebounce
    \/ RafRoom(MaxRaf) /\ ActiveLeafChange /\ ForeignToGesture
    \/ AnimationFrame /\ ForeignToGesture
    \/ PointerDown /\ ForeignToGesture
    \/ FenceRoom(MaxFenceTimers) /\ PointerUp /\ ForeignToGesture
    \/ FenceReleaseFire /\ UNCHANGED observers
    \/ GestureFlash
    \/ ResetFire /\ ObserveGestureReset
    \/ OverlayRemoveFire /\ UNCHANGED observers

SpecGesture == InitShowFlash /\ [][NextGesture]_vars

(***************************************************************************)
(* The plugin at work, with an observer of a scroll gesture that is        *)
(* turned away:                                                            *)
(*   -> scrolled           a scroll event arms the debounce timer           *)
(*   scrolled -> dropped   the debounce timer runs and scheduleFlash        *)
(*                         returns without admitting the scroll             *)
(*   dropped -> ...        the next scroll event                            *)
(* Other events and timers leave the observer where it is.                 *)
(***************************************************************************)
GestureDropped == [NoGesture EXCEPT !.phase = "dropped"]

ObserveDroppedScroll ==
    /\ gesture' = IF LiveIn(timers', "debounce") # {}
                  THEN [NoGesture EXCEPT !.phase = "scrolled"]
                  ELSE NoGesture
    /\ UNCHANGED notGesture

ObserveDroppedDebounce ==
    /\ gesture' = IF Admitted /\ pendingFlashTrigger' = "scroll"
                  THEN NoGesture
                  ELSE GestureDropped
    /\ UNCHANGED notGesture

NextDropped ==
    \/ PassTime /\ UNCHANGED observers
    \/ Scroll /\ ObserveDroppedScroll
    \/ DebounceFire /\ ObserveDroppedDebounce
    \/ RafRoom(MaxRaf) /\ ActiveLeafChange /\ UNCHANGED observers
    \/ AnimationFrame /\ UNCHANGED observers
    \/ PointerDown /\ UNCHANGED observers
    \/ FenceRoom(MaxFenceTimers) /\ PointerUp /\ UNCHANGED observers
    \/ FenceReleaseFire /\ UNCHANGED observers
    \/ FlashTimeoutFire /\ UNCHANGED observers
    \/ ResetFire /\ UNCHANGED observers
    \/ OverlayRemoveFire /\ UNCHANGED observers

SpecDropped == Init /\ [][NextDropped]_vars

(***************************************************************************)
(* The trigger settings.  loadSettings lays the saved data over            *)
(* DEFAULT_SETTINGS, so either trigger may be off from the start, and the  *)
(* toggles of the settings tab switch them while the plugin runs.  An      *)
(* observer notes each scroll and workspace event: which event it was,     *)
(* whether its setting was off when it arrived, and a parity that tells     *)
(* one event from the next.                                                *)
(***************************************************************************)
InitTriggers ==
    /\ Constructed
    /\ settings \in {[DEFAULT_SETTINGS EXCEPT !.lineDuration = d,
                                              !.flashOnWindowScrolls = onScroll,
                                              !.flashOnWindowChanges = onFileSwitch] :
                        d \in LineDurations, onScroll \in BOOLEAN, onFileSwitch \in BOOLEAN}
    /\ probe = NoProbe
    /\ NothingObserved

settingsFrame == << timers, raf1, raf2, overlays, unloaded, lastViewChange, flashTimeout,
                    resetFlashTimeout, scrollDebounceTimer, lastScrollPosition, flashActive,
                    clickFenceActive, pendingFlashTrigger, scrollFlashSuppressedUntil >>

\* settings tab, toggle 'On scroll'
ToggleOnScroll ==
    /\ ~unloaded
    /\ settings' = [settings EXCEPT !.flashOnWindowScrolls = ~@]
    /\ UNCHANGED settingsFrame

\* settings tab, toggle 'On file switch'
ToggleOnFileSwitch ==
    /\ ~unloaded
    /\ settings' = [settings EXCEPT !.flashOnWindowChanges = ~@]
    /\ UNCHANGED settingsFrame

EventNames == {"scroll", "active-leaf-change", "layout-change"}

ObserveEvent(name, settingOff) ==
    /\ gesture' = [phase |-> name,
                   off |-> settingOff,
                   parity |-> IF gesture.phase \in EventNames THEN 1 - gesture.parity ELSE 0]
    /\ UNCHANGED notGesture

NextTriggers ==
    \/ PassTime /\ UNCHANGED observers
    \/ Scroll /\ ObserveEvent("scroll", ~settings.flashOnWindowScrolls)
    \/ DebounceFire /\ UNCHANGED observers
    \/ /\ RafRoom(MaxRaf) /\ ActiveLeafChange
       /\ ObserveEvent("active-leaf-change", ~settings.flashOnWindowChanges)
    \/ /\ RafRoom(MaxRaf) /\ LayoutChange
       /\ ObserveEvent("layout-change", ~settings.flashOnWindowChanges)
    \/ AnimationFrame /\ UNCHANGED observers
    \/ ToggleOnScroll /\ UNCHANGED observers
    \/ ToggleOnFileSwitch /\ UNCHANGED observers
    \/ FlashTimeoutFire /\ UNCHANGED observers
    \/ ResetFire /\ UNCHANGED observers
    \/ OverlayRemoveFire /\ UNCHANGED observers

SpecTriggers == InitTriggers /\ [][NextTriggers]_vars

(***************************************************************************)
(* FlashRenderer alone: render called at any moment with any of the        *)
(* durations, its removal timers and the clock.  body holds one record for *)
(* each overlay element attached: el names the element, duration is the    *)
(* duration it was rendered with and age the time since then.  The removal *)
(* timer of an element is named after the element its callback closes      *)
(* over.                                                                   *)
(***************************************************************************)
RenderDurations == {100, 200}

Attached(b) == {e.el : e \in b}

notBody == << probe, gesture, overlayRemoved, scenarioA, scenarioB, burstLast, pointer, tailLeft,
              duplicate, editors, layout >>

rendererFrame == << raf1, raf2, settings, unloaded, lastViewChange, flashTimeout,
                    resetFlashTimeout, scrollDebounceTimer, lastScrollPosition, flashActive,
                    clickFenceActive, pendingFlashTrigger, scrollFlashSuppressedUntil >>

\* Variant: the renderer keeps one removal timer and cancels the one before.
renderElementOneTimer(q, element, duration) ==
    setTimeout(SelectSeq(q, LAMBDA t : t.kind # "remove"),
               Handle("remove", element), "remove", duration)

\* FlashRenderer.render: the timer that removes this element is armed
renderElement(q, element, duration) ==
    setTimeout(q, Handle("remove", element), "remove", duration)

\* a call of FlashRenderer.render(mode, cssText, duration)
RendererRender ==
    /\ Cardinality(body) < MaxOverlays
    /\ \E duration \in RenderDurations :
          LET element == CHOOSE n \in 1..MaxOverlays : n \notin Attached(body)
          IN /\ body' = body \cup {[el |-> element, duration |-> duration, age |-> 0]}
             /\ timers' = renderElement(timers, element, duration)
    /\ overlays' = overlays + 1
    /\ UNCHANGED rendererFrame
    /\ UNCHANGED notBody

\* callback of a removal timer: element.remove()
RendererRemove ==
    /\ \E i \in Live("remove") :
          /\ CanFire(i)
          /\ timers' = RemoveAt(timers, i)
          /\ body' = {e \in body : e.el # timers[i].id.n}
    /\ overlays' = Cardinality(body')
    /\ UNCHANGED rendererFrame
    /\ UNCHANGED notBody

RendererPassTime ==
    /\ PassTime
    /\ body' = {[e EXCEPT !.age = @ + Tick] : e \in body}
    /\ UNCHANGED notBody

NextRenderer ==
    \/ RendererRender
    \/ RendererRemove
    \/ RendererPassTime

SpecRenderer == Init /\ [][NextRenderer]_vars

\* the host runs due timer callbacks, and time passes
SpecRendererFair == SpecRenderer /\ WF_vars(RendererPassTime) /\ WF_vars(RendererRemove)

(***************************************************************************)
(* The pure functions, each applied once to inputs drawn from bounded sets. *)
(***************************************************************************)
PureLasts == {0, MinIntervalMs, MaxPureNow}

FlashStates ==
    [isFenceActive : BOOLEAN, isFlashActive : BOOLEAN, hasPendingFlash : BOOLEAN,
     lastViewChange : PureLasts, now : 0..MaxPureNow]

ScrollDeltas ==
    {Frac(n, 1) : n \in 0..MaxDeltaNum} \cup {Frac(n, DeltaDen) : n \in 0..(MaxDeltaNum * DeltaDen)}

InitPure ==
    /\ Constructed
    /\ settings = DEFAULT_SETTINGS
    /\ NothingObserved
    /\ \/ \E t \in Triggers, st \in FlashStates :
             probe = [NoProbe EXCEPT !.op = "canScheduleFlash", !.trigger = t, !.state = st]
       \/ \E d \in ScrollDeltas, f \in {"getScrollDebounceTime", "calculateScrollDebounceTime"} :
             probe = [NoProbe EXCEPT !.op = f, !.delta = d]

pureFrame == << timers, hostVars, lastViewChange, flashTimeout, resetFlashTimeout,
                scrollDebounceTimer, lastScrollPosition, flashActive, clickFenceActive,
                pendingFlashTrigger, scrollFlashSuppressedUntil, overlayRemoved, gesture,
                scenarioA, scenarioB, burstLast, pointer, tailLeft, duplicate, editorVars >>

CallCanScheduleFlash ==
    /\ probe.op = "canScheduleFlash" /\ ~probe.done
    /\ probe' = [probe EXCEPT !.done = TRUE,
                               !.allowed = canScheduleFlash(probe.trigger, probe.state)]
    /\ UNCHANGED pureFrame

CallGetScrollDebounceTime ==
    /\ probe.op = "getScrollDebounceTime" /\ ~probe.done
    /\ probe' = [probe EXCEPT !.done = TRUE, !.debounce = getScrollDebounceTime(probe.delta)]
    /\ UNCHANGED pureFrame

CallCalculateScrollDebounceTime ==
    /\ probe.op = "calculateScrollDebounceTime" /\ ~probe.done
    /\ probe' = [probe EXCEPT !.done = TRUE,
                               !.debounce = calculateScrollDebounceTime(probe.delta)]
    /\ UNCHANGED pureFrame

NextPure ==
    \/ CallCanScheduleFlash
    \/ CallGetScrollDebounceTime
    \/ CallCalculateScrollDebounceTime

SpecPure == InitPure /\ [][NextPure]_vars

(***************************************************************************)
(* loadSettings, applied once to persisted data drawn from a bounded set.  *)
(* A settings object is a function of its keys; Undefined stands for a key *)
(* the object does not have.  Of the keys only the cursor mode and style,  *)
(* under their old and their new names, are followed.                      *)
(***************************************************************************)
Undefined == "undefined"

SettingKeys == {"customCursorMode", "customCursorStyle", "blockCursorMode", "blockCursorStyle"}

CursorModes == {"always", "flash", "off"}
CursorStyles == {"block", "bar", "thick-vertical"}

\* DEFAULT_SETTINGS, on the keys followed
DefaultCursorSettings ==
    [k \in SettingKeys |-> CASE k = "customCursorMode" -> "always"
                             [] k = "customCursorStyle" -> "block"
                             [] OTHER -> Undefined]

EmptyObject == [k \in SettingKeys |-> Undefined]

\* what loadData() can yield: each key absent or set
PersistedData ==
    {d \in [SettingKeys -> CursorModes \cup CursorStyles \cup {Undefined}] :
        /\ d["customCursorMode"] \in CursorModes \cup {Undefined}
        /\ d["blockCursorMode"] \in CursorModes \cup {Undefined}
        /\ d["customCursorStyle"] \in CursorStyles \cup {Undefined}
        /\ d["blockCursorStyle"] \in CursorStyles \cup {Undefined}}

\* Object.assign(target, source): the source's own properties overwrite
ObjectAssign(target, source) ==
    [k \in SettingKeys |-> IF source[k] # Undefined THEN source[k] ELSE target[k]]

\* the migrations of loadSettings, on the merged object
migrate(merged) ==
    LET m1 == IF merged["blockCursorMode"] # Undefined /\ merged["customCursorMode"] = Undefined
              THEN [merged EXCEPT !["customCursorMode"] = merged["blockCursorMode"],
                                  !["blockCursorMode"] = Undefined]
              ELSE merged
        m2 == IF m1["blockCursorStyle"] # Undefined /\ m1["customCursorStyle"] = Undefined
              THEN [m1 EXCEPT !["customCursorStyle"] = m1["blockCursorStyle"],
                              !["blockCursorStyle"] = Undefined]
              ELSE m1
    IN IF m2["customCursorStyle"] = "thick-vertical"
       THEN [m2 EXCEPT !["customCursorStyle"] = "bar"]
       ELSE m2

\* this.settings after loadSettings
loadSettings(data) ==
    migrate(ObjectAssign(ObjectAssign(EmptyObject, DefaultCursorSettings), data))

InitSettings ==
    /\ Constructed
    /\ settings = DEFAULT_SETTINGS
    /\ NothingObserved
    /\ \E d \in PersistedData :
          probe = [op |-> "loadSettings", data |-> d, done |-> FALSE,
                   loaded |-> EmptyObject, saved |-> d]

\* loadSettings: the settings are built, migrated and saved
CallLoadSettings ==
    /\ probe.op = "loadSettings" /\ ~probe.done
    /\ LET loaded == loadSettings(probe.data)
       IN probe' = [probe EXCEPT !.done = TRUE, !.loaded = loaded, !.saved = loaded]
    /\ UNCHANGED pureFrame

NextSettings ==
    \/ CallLoadSettings

SpecSettings == InitSettings /\ [][NextSettings]_vars

(***************************************************************************)
(* The colour functions, each applied once to inputs drawn from bounded    *)
(* sets.                                                                   *)
(*                                                                         *)
(* getContrastColor compares contrast ratios.  The ratio of two colours is  *)
(* (L1 + 0.05) / (L2 + 0.05) for their relative luminances L1 >= L2, so a   *)
(* colour enters only by L + 0.05; it is kept in hundredths, from 5 (black) *)
(* to 105 (white), and a ratio is kept as a fraction.                      *)
(***************************************************************************)
White == 105
Black == 5
NoColor == 0              \* the theme defines no --text-on-accent
Infinity == 99            \* above every priority

\* L + 0.05, in hundredths, of the colours tried
Lumas == {Black, 20, 24, 35, 100, White}

\* getContrastRatio
getContrastRatio(color1, color2) ==
    IF color1 >= color2 THEN Frac(color1, color2) ELSE Frac(color2, color1)

\* a > b + 1/2 and a > b - 1/2, for fractions a and b
ExceedsByHalf(a, b) == 2 * a.num * b.den > 2 * b.num * a.den + a.den * b.den
ExceedsLessHalf(a, b) == 2 * a.num * b.den > 2 * b.num * a.den - a.den * b.den

\* the candidate text colours, in the order they are pushed
candidatesOf(textOnAccent, textColor, bgColor) ==
    (IF textOnAccent # NoColor THEN << [color |-> textOnAccent, priority |-> 1] >> ELSE << >>)
    \o << [color |-> White, priority |-> 2],
          [color |-> Black, priority |-> 3],
          [color |-> textColor, priority |-> 4],
          [color |-> bgColor, priority |-> 5] >>

\* Variant: a candidate of similar contrast is taken whatever its priority.
prefersSimilar(contrast, priority, best) ==
    ExceedsLessHalf(contrast, best.contrast)

\* the test of the loop: is this candidate taken in place of the best so far
prefers(contrast, priority, best) ==
    \/ ExceedsByHalf(contrast, best.contrast)
    \/ ExceedsLessHalf(contrast, best.contrast) /\ priority < best.priority

RECURSIVE bestOf(_, _, _)
bestOf(candidates, best, resolvedCursorColor) ==
    IF candidates = << >> THEN best
    ELSE LET candidate == Head(candidates)
             contrast == getContrastRatio(resolvedCursorColor, candidate.color)
         IN bestOf(Tail(candidates),
                   IF prefers(contrast, candidate.priority, best)
                   THEN [color |-> candidate.color, contrast |-> contrast,
                         priority |-> candidate.priority]
                   ELSE best,
                   resolvedCursorColor)

\* ColorProvider.getContrastColor, with the candidate it was found at
getContrastColor(cursorBackgroundColor, textOnAccent, textColor, bgColor) ==
    bestOf(candidatesOf(textOnAccent, textColor, bgColor),
           [color |-> White, contrast |-> Frac(0, 1), priority |-> Infinity],
           cursorBackgroundColor)

ContrastProbes ==
    {[op |-> "getContrastColor", done |-> FALSE, cursor |-> c, textOnAccent |-> a,
      textColor |-> t, bgColor |-> b,
      best |-> [color |-> White, contrast |-> Frac(0, 1), priority |-> Infinity]] :
        c \in Lumas, a \in Lumas \cup {NoColor}, t \in Lumas, b \in Lumas}

(***************************************************************************)
(* hexToRgb reads a string, kept here as a sequence of one-character        *)
(* strings.                                                                *)
(***************************************************************************)
DecimalDigits == << "0", "1", "2", "3", "4", "5", "6", "7", "8", "9" >>
HexDigits == DecimalDigits \o << "a", "b", "c", "d", "e", "f" >>

\* the character without its case (the i flag of the pattern)
toLowerCase(c) ==
    CASE c = "A" -> "a" [] c = "B" -> "b" [] c = "C" -> "c"
      [] c = "D" -> "d" [] c = "E" -> "e" [] c = "F" -> "f"
      [] OTHER -> c

\* \d of the patterns, and [a-f\d] under the i flag
isDigit(c) == \E i \in 1..Len(DecimalDigits) : DecimalDigits[i] = c
isHexDigit(c) == \E i \in 1..Len(HexDigits) : HexDigits[i] = toLowerCase(c)

digitOf(c) == (CHOOSE i \in 1..Len(HexDigits) : HexDigits[i] = toLowerCase(c)) - 1

\* parseInt(string, radix), on a string of digits of that radix
RECURSIVE parseIntFrom(_, _, _)
parseIntFrom(string, radix, value) ==
    IF string = << >> THEN value
    ELSE parseIntFrom(Tail(string), radix, value * radix + digitOf(Head(string)))

parseInt(string, radix) == parseIntFrom(string, radix, 0)

startsWith(string, searchString) ==
    /\ Len(string) >= Len(searchString)
    /\ SubSeq(string, 1, Len(searchString)) = searchString

\* string.match(/\d+/g): the maximal runs of decimal digits, in order
RECURSIVE digitRuns(_, _, _)
digitRuns(string, run, matches) ==
    IF string = << >>
    THEN IF run = << >> THEN matches ELSE Append(matches, run)
    ELSE IF isDigit(Head(string))
         THEN digitRuns(Tail(string), Append(run, Head(string)), matches)
         ELSE digitRuns(Tail(string), << >>,
                        IF run = << >> THEN matches ELSE Append(matches, run))

matchDigits(string) == digitRuns(string, << >>, << >>)

\* /^#?([a-f\d]{2})([a-f\d]{2})([a-f\d]{2})$/i.exec(hex): the three groups,
\* or the empty sequence for null
execHexPattern(hex) ==
    LET digits == IF hex # << >> /\ Head(hex) = "#" THEN Tail(hex) ELSE hex
    IN IF Len(digits) = 6 /\ \A i \in 1..6 : isHexDigit(digits[i])
       THEN << SubSeq(digits, 1, 2), SubSeq(digits, 3, 4), SubSeq(digits, 5, 6) >>
       ELSE << >>

FallbackRgb == [r |-> 100, g |-> 150, b |-> 255]

hexToRgb(hex) ==
    LET matches == matchDigits(hex)
        result == execHexPattern(hex)
    IN IF startsWith(hex, << "r", "g", "b" >>) /\ Len(matches) >= 3
       THEN [r |-> parseInt(matches[1], 10),
             g |-> parseInt(matches[2], 10),
             b |-> parseInt(matches[3], 10)]
       ELSE IF result # << >>
            THEN [r |-> parseInt(result[1], 16),
                  g |-> parseInt(result[2], 16),
                  b |-> parseInt(result[3], 16)]
            ELSE FallbackRgb

\* The strings tried: a prefix, up to MaxPieces pieces, a suffix.
MaxPieces == 4

HexPrefixes == { << >>, << "#" >> }
RgbPrefixes == { << "r", "g", "b", "(" >>, << "r", "g", "b", "a", "(" >> }
Prefixes == HexPrefixes \cup RgbPrefixes \cup { << "r", "g", "b" >> }
Suffixes == { << >>, << ")" >> }

ChannelPieces == { << "2", "5", "5", "," >>, << "7", ",", " " >> }
LastChannelPiece == << "6", "4" >>
AlphaPiece == << ",", "0", ".", "5" >>
Pieces == ChannelPieces
            \cup { LastChannelPiece, AlphaPiece, << "f", "f" >>, << "0", "A" >>, << "f" >> }

RECURSIVE Flatten(_)
Flatten(strings) ==
    IF strings = << >> THEN << >> ELSE Head(strings) \o Flatten(Tail(strings))

NoRgb == [r |-> -1, g |-> -1, b |-> -1]

RgbProbes ==
    {[op |-> "hexToRgb", done |-> FALSE, prefix |-> p, pieces |-> ps, suffix |-> x,
      hex |-> p \o Flatten(ps) \o x, rgb |-> NoRgb] :
        p \in Prefixes,
        ps \in UNION {[1..n -> Pieces] : n \in 0..MaxPieces},
        x \in Suffixes}

InitColor ==
    /\ Constructed
    /\ settings = DEFAULT_SETTINGS
    /\ NothingObserved
    /\ probe \in ContrastProbes \cup RgbProbes

CallHexToRgb ==
    /\ probe.op = "hexToRgb" /\ ~probe.done
    /\ probe' = [probe EXCEPT !.done = TRUE, !.rgb = hexToRgb(probe.hex)]
    /\ UNCHANGED pureFrame

CallGetContrastColor ==
    /\ probe.op = "getContrastColor" /\ ~probe.done
    /\ probe' = [probe EXCEPT !.done = TRUE,
                               !.best = getContrastColor(probe.cursor, probe.textOnAccent,
                                                         probe.textColor, probe.bgColor)]
    /\ UNCHANGED pureFrame

NextColor ==
    \/ CallGetContrastColor
    \/ CallHexToRgb

SpecColor == InitColor /\ [][NextColor]_vars

TypeOK ==
    /\ lastViewChange \in (now - MinIntervalMs)..now
    /\ scrollFlashSuppressedUntil \in now..(now + ScrollSuppressMs)
    /\ overlays \in Nat
    /\ flashActive \in BOOLEAN
    /\ clickFenceActive \in BOOLEAN
    /\ pendingFlashTrigger \in Triggers \cup {NoTrigger}

(***************************************************************************)
(* Properties of the pure functions, under SpecPure.                       *)
(***************************************************************************)
Decided == probe.op = "canScheduleFlash" /\ probe.done

Debounced ==
    /\ probe.op \in {"getScrollDebounceTime", "calculateScrollDebounceTime"}
    /\ probe.done

\* C3: canScheduleFlash returns false whenever state.isFlashActive is true,
\* for every trigger, every fence and pending value and every pair of
\* timestamps.
C3_ActiveBlocks ==
    (Decided /\ probe.state.isFlashActive) => ~probe.allowed

\* a view-change that nothing but the active flash stands against
C3_Witness ==
    /\ Decided /\ ~probe.allowed
    /\ probe.trigger = "view-change"
    /\ probe.state.isFlashActive /\ ~probe.state.hasPendingFlash /\ ~probe.state.isFenceActive
    /\ probe.state.now - probe.state.lastViewChange >= 100

\* C4: canScheduleFlash returns false whenever state.hasPendingFlash is true,
\* for every trigger, every fence and active value and every pair of
\* timestamps.
C4_PendingBlocks ==
    (Decided /\ probe.state.hasPendingFlash) => ~probe.allowed

\* a layout-change that nothing but the pending flash stands against
C4_Witness ==
    /\ Decided /\ ~probe.allowed
    /\ probe.trigger = "layout-change"
    /\ probe.state.hasPendingFlash /\ ~probe.state.isFlashActive /\ ~probe.state.isFenceActive
    /\ probe.state.now - probe.state.lastViewChange >= 100

\* C5: while the click fence is active canScheduleFlash returns false for
\* every trigger other than view-change and layout-change, whatever the
\* other state fields are.
C5_FenceBlocks ==
    (/\ Decided
     /\ probe.state.isFenceActive
     /\ probe.trigger \notin {"view-change", "layout-change"}) => ~probe.allowed

\* a trigger string the plugin never sends, which nothing but the fence stands against
C5_Witness ==
    /\ Decided /\ ~probe.allowed
    /\ probe.trigger = "any-trigger"
    /\ probe.state.isFenceActive /\ ~probe.state.isFlashActive /\ ~probe.state.hasPendingFlash
    /\ probe.state.now - probe.state.lastViewChange >= 100

\* C6: for view-change and layout-change with no flash active and none
\* pending, canScheduleFlash returns true while the fence is active, for
\* every value of now - lastViewChange, 0 included.
C6_ViewBypassesFence ==
    (/\ Decided
     /\ probe.trigger \in {"view-change", "layout-change"}
     /\ probe.state.isFenceActive
     /\ ~probe.state.isFlashActive /\ ~probe.state.hasPendingFlash) => probe.allowed

\* admitted under the fence at the very instant of the last admission
C6_Witness ==
    /\ Decided /\ probe.allowed
    /\ probe.trigger = "view-change"
    /\ probe.state.isFenceActive
    /\ probe.state.now = probe.state.lastViewChange

\* C7: for scroll with the fence inactive, no flash active and none pending,
\* canScheduleFlash returns true if and only if now - lastViewChange >= 100:
\* rejected at 50, admitted at 150, admitted at exactly 100.
C7_ScrollInterval ==
    (/\ Decided
     /\ probe.trigger = "scroll"
     /\ ~probe.state.isFenceActive
     /\ ~probe.state.isFlashActive /\ ~probe.state.hasPendingFlash)
      => /\ probe.allowed <=> (probe.state.now - probe.state.lastViewChange >= 100)
         /\ probe.state.now - probe.state.lastViewChange = 50 => ~probe.allowed
         /\ probe.state.now - probe.state.lastViewChange = 150 => probe.allowed
         /\ probe.state.now - probe.state.lastViewChange = 100 => probe.allowed

\* the boundary: a scroll exactly 100 ms after the last admission
C7_Witness ==
    /\ Decided /\ probe.allowed
    /\ probe.trigger = "scroll"
    /\ ~probe.state.isFenceActive /\ ~probe.state.isFlashActive /\ ~probe.state.hasPendingFlash
    /\ probe.state.lastViewChange > 0
    /\ probe.state.now - probe.state.lastViewChange = 100

\* C9: getScrollDebounceTime and calculateScrollDebounceTime return 250 for
\* every delta < 5 (0 included) and 150 for every delta >= 5; delta = 5
\* gives 150, and the result is always 150 or 250.
C9_DebounceTime ==
    Debounced =>
        /\ probe.delta.num < 5 * probe.delta.den => probe.debounce = 250
        /\ probe.delta.num >= 5 * probe.delta.den => probe.debounce = 150
        /\ probe.delta.num = 0 => probe.debounce = 250
        /\ probe.delta.num = 5 * probe.delta.den => probe.debounce = 150
        /\ probe.debounce \in {150, 250}

\* the boundary, through the scheduler's method
C9_Witness ==
    /\ Debounced
    /\ probe.op = "getScrollDebounceTime"
    /\ probe.delta = Frac(5, 1)
    /\ probe.debounce = 150

(***************************************************************************)
(* Properties of the running plugin, under Spec.                           *)
(***************************************************************************)
\* flashes between admission and the end of their lifecycle
FlashesInFlight == Cardinality(Live("flash")) + Cardinality(Live("reset"))

\* C1: at most one flash is in flight in every reachable state, and
\* scheduleFlash admits a trigger only when flashActive is false and no
\* trigger is pending, so that no admission happens between an earlier
\* admission and the end of that flash's lifecycle.
C1_OneFlashInFlight ==
    /\ [](FlashesInFlight <= 1 /\ ~(flashActive /\ pendingFlashTrigger # NoTrigger))
    /\ [][Admitted => /\ ~flashActive
                      /\ pendingFlashTrigger = NoTrigger
                      /\ FlashesInFlight = 0]_vars

\* a second flash admitted after the first one has run its whole lifecycle
C1_Witness ==
    /\ pendingFlashTrigger # NoTrigger
    /\ resetFlashTimeout # NULL
    /\ ~flashActive
    /\ FlashesInFlight = 1

\* C8 as stated: no two admissions of any kind are less than 100 ms apart.
\* (flashTimeout # NULL: there has been an admission before, at lastViewChange.)
C8_NoTwoAdmissionsWithin100 ==
    [][(Admitted /\ flashTimeout # NULL) => now - lastViewChange >= 100]_vars

\* C8: the 100 ms minimum interval limits the triggers other than
\* view-change and layout-change: no such trigger is admitted less than
\* 100 ms after the preceding admission.
C8_NonViewAdmissions100Apart ==
    [][(/\ Admitted
        /\ flashTimeout # NULL
        /\ pendingFlashTrigger' \notin {"view-change", "layout-change"})
          => now - lastViewChange >= 100]_vars

\* a scroll admitted after an earlier flash has been shown
C8_Witness ==
    /\ pendingFlashTrigger = "scroll"
    /\ lastViewChange = now
    /\ resetFlashTimeout # NULL

(***************************************************************************)
(* Properties of the overlays, under SpecOverlay.                          *)
(***************************************************************************)
\* C2: at any moment at most one flash overlay element created by the
\* plugin is attached to the document: the overlay of a flash has been
\* removed before the overlay of the next flash is created.
C2_OneOverlay == overlays <= 1

\* the overlay of a later flash, just attached, after an earlier one has been removed
C2_Witness ==
    /\ overlayRemoved
    /\ overlays = 1
    /\ flashActive
    /\ \E i \in Live("remove") : timers[i].due = now + settings.lineDuration

(***************************************************************************)
(* Scenario A, under SpecScenarioA.                                        *)
(***************************************************************************)
\* C10: over the running plugin, a view-change arriving while the click
\* fence is active, with no flash active or pending, is admitted; a scroll
\* arriving while that flash is active leads to no admission; and after the
\* reset timer has fired, with the fence released, a scroll attempting
\* admission is admitted again.
C10_ScenarioA == scenarioA # "violated"

\* the scenario run to its end
C10_Witness ==
    /\ scenarioA = "readmitted"
    /\ pendingFlashTrigger = "scroll"
    /\ ~clickFenceActive /\ ~flashActive

\* C12: a scroll event that arrives while a flash is active, or while
\* now < scrollFlashSuppressedUntil, sets scrollFlashSuppressedUntil to
\* now + 300, cancels and clears any pending scroll-debounce timer, arms no
\* new debounce timer and makes no admission attempt.
C12_SuppressedScroll ==
    [][(Scroll /\ (flashActive \/ now < scrollFlashSuppressedUntil))
          => /\ scrollFlashSuppressedUntil' = now + 300
             /\ scrollDebounceTimer' = NULL
             /\ LiveIn(timers', "debounce") = {}
             /\ ~Admitted
             /\ UNCHANGED << lastViewChange, flashTimeout, pendingFlashTrigger >>]_vars

\* a scroll event has just been suppressed inside the window, the flash being over
C12_Witness ==
    /\ scrollFlashSuppressedUntil = now + 300
    /\ ~flashActive
    /\ resetFlashTimeout # NULL /\ Live("reset") = {}
    /\ scrollDebounceTimer = NULL /\ Live("debounce") = {}

(***************************************************************************)
(* Momentum scrolling, under SpecBurst.                                    *)
(***************************************************************************)
\* C13: in a burst of scroll events whose first event arrives while a flash
\* is active and whose later events each arrive less than 300 ms after the
\* previous one, no event arms a debounce timer, so that no debounce timer
\* is live and no scroll-triggered flash is admitted during the burst,
\* however long it goes on after the first flash's reset.
C13_MomentumScroll ==
    /\ [][(Scroll /\ (flashActive \/ InBurst)) => LiveIn(timers', "debounce") = {}]_vars
    /\ [](InBurst => Live("debounce") = {})
    /\ [][(InBurst /\ Admitted) => pendingFlashTrigger' # "scroll"]_vars

\* an event of a burst that still goes on after the flash's reset and its overlay's removal
C13_Witness ==
    /\ burstLast = now
    /\ ~flashActive
    /\ resetFlashTimeout # NULL /\ Live("reset") = {} /\ overlays = 0
    /\ Live("debounce") = {}

(***************************************************************************)
(* Scenario B and the timers of the flash pipeline, under SpecScenarioB.   *)
(***************************************************************************)
\* C11: starting idle, a scroll of 2 px arms a 250 ms debounce timer; a
\* scroll of 80 px before it fires cancels that timer and arms a 150 ms
\* timer instead; exactly one admission attempt is made and exactly one
\* flash results.
C11_ScenarioB == scenarioB # "violated"

\* the scenario run to its end: one flash shown and over, nothing else under way
C11_Witness ==
    /\ scenarioB = "done"
    /\ lastScrollPosition = 82
    /\ resetFlashTimeout # NULL /\ ~flashActive
    /\ Live("debounce") = {} /\ Live("flash") = {}

\* C14: in every reachable state there is at most one live scroll-debounce
\* timer, at most one live admission-delay timer and at most one live reset
\* timer, and a live one is the one whose handle the plugin has stored:
\* arming one of these timers first cancels the stored handle of the same
\* purpose.
C14_OneTimerPerPurpose ==
    /\ Cardinality(Live("debounce")) <= 1
    /\ Cardinality(Live("flash")) <= 1
    /\ Cardinality(Live("reset")) <= 1
    /\ \A i \in Live("debounce") : timers[i].id = scrollDebounceTimer
    /\ \A i \in Live("flash") : timers[i].id = flashTimeout
    /\ \A i \in Live("reset") : timers[i].id = resetFlashTimeout

\* a debounce timer has just replaced a live predecessor
C14_Witness ==
    /\ scenarioB = "second"
    /\ Cardinality(Live("debounce")) = 1
    /\ \A i \in Live("debounce") : timers[i].due = now + 150

(***************************************************************************)
(* The click fence, under SpecFence and SpecFenceFair.                     *)
(***************************************************************************)
\* C15: there is a single outstanding fence-release handle: at any moment
\* at most one fence-release timer is live, a pointerup, pointercancel or
\* click cancelling the one already pending.
C15_OneFenceTimer == Cardinality(Live("fence")) <= 1

\* C16: the click fence is active at every moment from a pointerdown until
\* the end of the 400 ms tail that follows the pointerup, pointercancel or
\* click of that press.
C16_FenceWhileMidClick ==
    (pointer = "down" \/ tailLeft > 0) => clickFenceActive

\* C17: pointerup, pointercancel and click never clear the fence at once:
\* clickFenceActive becomes false only when a release timer fires 400 ms
\* after such an event; and after a release that no pointerdown follows the
\* fence eventually is inactive.
C17_DelayedRelease ==
    /\ [][(PointerUp \/ PointerCancel \/ boundClickEndFence)
             => clickFenceActive' = clickFenceActive]_vars
    /\ [][(clickFenceActive /\ ~clickFenceActive')
             => \E i \in Live("fence") :
                   /\ timers[i].delay = 400 /\ timers[i].due = now
                   /\ timers' = RemoveAt(timers, i)]_vars
    /\ (pointer # "down" /\ Live("fence") # {}) ~> (~clickFenceActive \/ pointer = "down")

\* the pointer is up for 350 ms and the fence still stands
C17_Witness ==
    /\ clickFenceActive
    /\ pointer = "up"
    /\ tailLeft = 50
    /\ \E i \in Live("fence") : timers[i].due = now + 50

\* C18: teardown cancels every outstanding timer of the plugin (scroll
\* debounce, admission delay, reset and fence release), and afterwards no
\* timer callback of the plugin changes the plugin's state.
C18_TeardownCancelsTimers ==
    /\ [][onunload => \A kind \in PluginTimerKinds : LiveIn(timers', kind) = {}]_vars
    /\ [][(unloaded /\ (DebounceFire \/ FlashTimeoutFire \/ ResetFire \/ FenceReleaseFire))
            => UNCHANGED << lastViewChange, flashTimeout, resetFlashTimeout,
                            scrollDebounceTimer, lastScrollPosition, flashActive,
                            clickFenceActive, pendingFlashTrigger,
                            scrollFlashSuppressedUntil >>]_vars

\* C19: a flash overlay in the document when teardown runs is removed by the
\* teardown itself, not left to its own removal timer.
C19_TeardownRemovesOverlay == [][onunload => overlays' = 0]_vars

\* C20: after teardown no flash is rendered: no overlay is created, flashActive
\* is never set true and no new timer is armed, whatever animation frames or
\* timers were pending when teardown ran.
C20_NoFlashAfterTeardown ==
    [][unloaded =>
          /\ overlays' <= overlays
          /\ flashActive' => flashActive
          /\ \A kind \in PluginTimerKinds \cup {"remove"} :
                Cardinality(LiveIn(timers', kind)) <= Cardinality(LiveIn(timers, kind))]_vars

AdmittingFrame ==
    /\ raf2 # << >>
    /\ canScheduleFlash(raf2[1], FlashStateOf(SchedFields))
    /\ AnimationFrame

AdmittingDebounce ==
    /\ Live("debounce") # {}
    /\ canScheduleFlash("scroll", FlashStateOf(SchedFields))
    /\ DebounceFire

\* what scheduleFlash leaves behind on admission
AdmissionRecorded(trigger) ==
    /\ lastViewChange' = now
    /\ pendingFlashTrigger' = trigger
    /\ OneFlashTimer(timers')
    /\ \A i \in LiveIn(timers', "flash") : timers'[i].delay = 50

\* C22: on admission scheduleFlash records lastViewChange = now, sets
\* pendingFlashTrigger to the trigger and arms exactly one admission-delay
\* timer of 50 ms; lastViewChange is written at no other point, so it is the
\* time of the latest admission, never lies ahead and never moves back (while
\* time passes it only falls behind the present).
C22_AdmissionRecords ==
    /\ [][AdmittingFrame => AdmissionRecorded(raf2[1])]_vars
    /\ [][AdmittingDebounce => AdmissionRecorded("scroll")]_vars
    /\ [][lastViewChange' # lastViewChange =>
            \/ lastViewChange' < lastViewChange /\ PassTime
            \/ /\ lastViewChange' = now
               /\ lastViewChange' > lastViewChange
               /\ AdmittingFrame \/ AdmittingDebounce]_vars
    /\ [][lastViewChange' <= now]_vars

C22_Witness ==
    /\ lastViewChange = now
    /\ pendingFlashTrigger = "scroll"
    /\ OneFlashTimer(timers)
    /\ flashTimeout \in Ids(timers)

\* a reset timer has just been armed for the configured flash duration
ResetArmed(q) ==
    /\ Cardinality(LiveIn(q, "reset")) = 1
    /\ \A i \in LiveIn(q, "reset") :
          /\ q[i].delay = settings.lineDuration
          /\ q[i].due = now + settings.lineDuration
          /\ q[i].id = resetFlashTimeout'

\* C23 as stated: whenever the admission-delay timer fires, the flash is
\* rendered, the pending flag is cleared, flashActive becomes true and a reset
\* timer is armed for settings.lineDuration, whatever state the host is in.
C23_FiringAlwaysRenders ==
    [][FlashTimeoutFire =>
          /\ overlays' = overlays + 1
          /\ pendingFlashTrigger' = NoTrigger
          /\ flashActive'
          /\ ResetArmed(timers')]_vars

\* C23 as amended: whenever the admission-delay timer fires, the pending flag
\* is cleared.  If the active view is a Markdown view with an editor,
\* flashActive becomes true and a reset timer is armed for
\* settings.lineDuration, and an overlay is painted when the highlight mode is
\* not 'off' and the host yields cursor coordinates; with no such view nothing
\* else changes.
C23_FiringWithView ==
    [][\A hasView \in BOOLEAN, hasCoords \in BOOLEAN :
          showFlashCallback(hasView, hasCoords) =>
             /\ pendingFlashTrigger' = NoTrigger
             /\ hasView =>
                   /\ flashActive'
                   /\ ResetArmed(timers')
                   /\ overlays' = IF hasCoords /\ settings.lineHighlightMode # "off"
                                  THEN overlays + 1 ELSE overlays
             /\ ~hasView =>
                   /\ UNCHANGED << flashActive, overlays, resetFlashTimeout,
                                   scrollDebounceTimer >>
                   /\ LiveIn(timers', "reset") = {}]_vars

C23_Witness ==
    /\ flashActive
    /\ pendingFlashTrigger = NoTrigger
    /\ overlays = 1
    /\ \E i \in Live("reset") : timers[i].due = now + settings.lineDuration

\* C24: when the admission delay fires and the host yields no cursor
\* coordinates, the render is aborted for that attempt only: no overlay is
\* painted, the pending flag is cleared, and no flash is marked active (and no
\* reset timer armed) for an overlay that was never painted.
C24_AbortedRenderLeavesNoFlash ==
    [][(settings.lineHighlightMode # "off" /\ showFlashCallback(TRUE, FALSE)) =>
          /\ overlays' = overlays
          /\ pendingFlashTrigger' = NoTrigger
          /\ flashActive' = flashActive
          /\ LiveIn(timers', "reset") = {}]_vars

\* C25: with the cursor mode fixed at 'flash', the custom cursor decoration is
\* never displayed while flashActive is false: the reset callback clears
\* flashActive and rebuilds the decoration in the same step.
C25_CursorOnlyDuringFlash ==
    settings.customCursorMode = "flash" =>
        \A v \in Views : editors.shown[v] => flashActive

\* C26: every call of FlashRenderer.render creates its own overlay and its own
\* removal timer and touches no other; an overlay leaves the document only
\* when its own duration has passed since its render, and every overlay is
\* eventually removed.
C26_IndependentOverlays ==
    /\ [][RendererRender =>
            /\ Cardinality(body') = Cardinality(body) + 1
            /\ body \subseteq body'
            /\ Len(timers') = Len(timers) + 1
            /\ \A i \in 1..Len(timers) : \E j \in 1..Len(timers') : timers'[j] = timers[i]]_vars
    /\ [][\A e \in body : e.el \notin Attached(body') =>
            /\ e.age = e.duration
            /\ Attached(body') = Attached(body) \ {e.el}]_vars
    /\ [](\A e \in body : e.age <= e.duration)
    /\ \A n \in 1..(MaxOverlays + 1) : (n \in Attached(body)) ~> (n \notin Attached(body))

C26_Witness ==
    \E e1 \in body, e2 \in body :
        /\ e1.el # e2.el
        /\ e1.duration = e2.duration
        /\ e1.age = e1.duration
        /\ e2.age = e1.age - 50
        /\ Cardinality(Live("remove")) = 2

\* C27: for persisted data that has blockCursorMode (blockCursorStyle) and no
\* customCursorMode (customCursorStyle), the loaded settings have
\* customCursorMode (customCursorStyle) equal to the persisted old value and
\* no longer have the old key.
C27_OldNamesMigrated ==
    (probe.op = "loadSettings" /\ probe.done) =>
        /\ (probe.data["blockCursorMode"] # Undefined
              /\ probe.data["customCursorMode"] = Undefined) =>
                 /\ probe.loaded["customCursorMode"] = probe.data["blockCursorMode"]
                 /\ probe.loaded["blockCursorMode"] = Undefined
        /\ (probe.data["blockCursorStyle"] # Undefined
              /\ probe.data["customCursorStyle"] = Undefined) =>
                 /\ probe.loaded["customCursorStyle"] = probe.data["blockCursorStyle"]
                 /\ probe.loaded["blockCursorStyle"] = Undefined

ContrastPicked == probe.op = "getContrastColor" /\ probe.done

ProbeCandidates ==
    LET cs == candidatesOf(probe.textOnAccent, probe.textColor, probe.bgColor)
    IN {[priority |-> cs[i].priority, color |-> cs[i].color,
         contrast |-> getContrastRatio(probe.cursor, cs[i].color)] : i \in 1..Len(cs)}

\* a > b and a = b, for fractions
FracGreater(a, b) == a.num * b.den > b.num * a.den
FracEqual(a, b) == a.num * b.den = b.num * a.den

\* C28 as stated: getContrastColor returns the candidate with the highest
\* contrast ratio against the cursor background; only among candidates that
\* tie for the highest is the choice made by the priority order.
C28_HighestContrastWins ==
    ContrastPicked =>
        \A c \in ProbeCandidates :
            /\ ~FracGreater(c.contrast, probe.best.contrast)
            /\ FracEqual(c.contrast, probe.best.contrast) => probe.best.priority <= c.priority

\* C28 as amended: getContrastColor returns a candidate whose contrast ratio
\* is at most 0.5 below the highest among the candidates and higher than that
\* of every candidate before it in the priority order: a later candidate
\* takes the place of an earlier one only when its ratio is more than 0.5
\* higher, so ties and near-ties go to the earlier candidate.
C28_NearHighestEarliestWins ==
    ContrastPicked =>
        /\ \E c \in ProbeCandidates :
              /\ c.priority = probe.best.priority
              /\ c.color = probe.best.color
              /\ c.contrast = probe.best.contrast
        /\ \A c \in ProbeCandidates :
              /\ ~ExceedsByHalf(c.contrast, probe.best.contrast)
              /\ c.priority < probe.best.priority =>
                    FracGreater(probe.best.contrast, c.contrast)

\* white is found first; black has the higher ratio, by less than 0.5
C28_Witness ==
    /\ ContrastPicked
    /\ probe.best.priority = 2
    /\ \E c \in ProbeCandidates :
          /\ c.priority = 3
          /\ FracGreater(c.contrast, probe.best.contrast)
          /\ ~ExceedsByHalf(c.contrast, probe.best.contrast)

RgbParsed == probe.op = "hexToRgb" /\ probe.done

\* value of one hexadecimal digit, either case
HexValue(c) ==
    CASE c = "0" -> 0 [] c = "1" -> 1 [] c = "2" -> 2 [] c = "3" -> 3
      [] c = "4" -> 4 [] c = "5" -> 5 [] c = "6" -> 6 [] c = "7" -> 7
      [] c = "8" -> 8 [] c = "9" -> 9
      [] c \in {"a", "A"} -> 10 [] c \in {"b", "B"} -> 11 [] c \in {"c", "C"} -> 12
      [] c \in {"d", "D"} -> 13 [] c \in {"e", "E"} -> 14 [] c \in {"f", "F"} -> 15
      [] OTHER -> -1

\* the six digits of a 6-digit hex colour, with or without '#'; else << >>
SixHexDigits(string) ==
    LET digits == IF startsWith(string, << "#" >>) THEN SubSeq(string, 2, Len(string))
                  ELSE string
    IN IF Len(digits) = 6 /\ \A i \in 1..6 : HexValue(digits[i]) >= 0
       THEN digits ELSE << >>

\* an rgb( ) or rgba( ) string: three channels, an alpha or none
IsRgbFunction(p) ==
    /\ p.prefix \in RgbPrefixes
    /\ p.suffix = << ")" >>
    /\ Len(p.pieces) \in {3, 4}
    /\ p.pieces[1] \in ChannelPieces
    /\ p.pieces[2] \in ChannelPieces
    /\ p.pieces[3] = LastChannelPiece
    /\ Len(p.pieces) = 4 => p.pieces[4] = AlphaPiece

ChannelValue(piece) ==
    CASE piece = << "2", "5", "5", "," >> -> 255
      [] piece = << "7", ",", " " >> -> 7
      [] piece = << "6", "4" >> -> 64

\* C29: hexToRgb returns the channel values of a 6-digit hex string (with or
\* without '#', in any letter case) and of an rgb( ) or rgba( ) string (alpha
\* ignored), and the fallback (100, 150, 255) for every other string.
C29_ParsesOrFallsBack ==
    RgbParsed =>
        LET d == SixHexDigits(probe.hex)
        IN IF d # << >>
           THEN probe.rgb = [r |-> 16 * HexValue(d[1]) + HexValue(d[2]),
                             g |-> 16 * HexValue(d[3]) + HexValue(d[4]),
                             b |-> 16 * HexValue(d[5]) + HexValue(d[6])]
           ELSE IF IsRgbFunction(probe)
                THEN probe.rgb = [r |-> ChannelValue(probe.pieces[1]),
                                  g |-> ChannelValue(probe.pieces[2]),
                                  b |-> ChannelValue(probe.pieces[3])]
                ELSE probe.rgb = FallbackRgb

\* C30: the overlay is put where the cursor line is when the admission timer
\* fires, whatever the geometry was when the trigger was admitted: a change
\* of the cursor position or of the editor rectangle during the 50 ms delay
\* shows in the overlay.
C30_GeometryReadAtRender ==
    [][(overlays' = overlays + 1 /\ FlashTimeoutFire) => layout'.painted = layout.top]_vars

\* an overlay painted at a top that differs from the top at admission
C30_Witness ==
    /\ overlays = 1
    /\ flashActive
    /\ layout.admitted # NoTop
    /\ layout.painted = layout.top
    /\ layout.painted # layout.admitted

\* the timers of the queue q that are not fence-release timers, without their
\* due times (which the clock moves)
PipelineTimers(q) ==
    LET Other(t) == t.kind # "fence"
        kept == SelectSeq(q, Other)
    IN [i \in 1..Len(kept) |-> [id |-> kept[i].id, kind |-> kept[i].kind,
                                 delay |-> kept[i].delay]]

\* a step of the click fence: the fence is raised or lowered, or a
\* fence-release timer is armed or runs
FenceStep ==
    \/ clickFenceActive' # clickFenceActive
    \/ Cardinality(LiveIn(timers', "fence")) # Cardinality(Live("fence"))

\* C31: the click fence and the flash pipeline are independent.  A step of
\* the fence (pointerdown, pointerup, pointercancel, click, a fence-release
\* timer running) leaves flashActive, pendingFlashTrigger, lastViewChange,
\* scrollFlashSuppressedUntil and the debounce, admission and reset timers
\* with their handles alone, and a step that changes any of these leaves
\* clickFenceActive and the fence-release timers alone.
C31_FenceAndPipelineApart ==
    [][FenceStep =>
          /\ UNCHANGED << flashActive, pendingFlashTrigger, lastViewChange,
                          scrollFlashSuppressedUntil, flashTimeout, resetFlashTimeout,
                          scrollDebounceTimer, lastScrollPosition, overlays >>
          /\ PipelineTimers(timers') = PipelineTimers(timers)]_vars

\* the fence is up with a release timer under way while a flash is active
C31_Witness ==
    /\ clickFenceActive
    /\ Live("fence") # {}
    /\ flashActive
    /\ Live("reset") # {}

\* C32: a call of scheduleFlash that is rejected (isMouseClick, or the
\* scheduler says no) changes nothing: lastViewChange, pendingFlashTrigger,
\* flashActive, scrollFlashSuppressedUntil and the timer handles keep their
\* values and the timer queue is as it was.
C32_RejectedCallChangesNothing ==
    [][\A trigger \in CalledTriggers, isMouseClick \in BOOLEAN :
          (/\ isMouseClick \/ ~canScheduleFlash(trigger, FlashStateOf(SchedFields))
           /\ CallScheduleFlash(trigger, isMouseClick))
          => UNCHANGED << lastViewChange, pendingFlashTrigger, flashActive,
                          scrollFlashSuppressedUntil, flashTimeout, resetFlashTimeout,
                          scrollDebounceTimer, timers >>]_vars

\* a state in which calls are rejected for each reason at once: a flash is
\* active, the fence is up, the last admission is recent and timers are under way
C32_Witness ==
    /\ flashActive
    /\ clickFenceActive
    /\ lastViewChange > now - MinIntervalMs
    /\ Live("reset") # {}
    /\ Live("fence") # {}
    /\ \A trigger \in CalledTriggers : ~canScheduleFlash(trigger, FlashStateOf(SchedFields))

\* C33: whenever a flash is active no scroll-debounce timer is live and the
\* plugin holds no debounce handle: showing a flash cancels the debounce
\* timer, and a scroll event during the flash cancels one and arms none, so
\* no debounce callback asks for a flash while a flash is active.
C33_NoDebounceWhileActive ==
    flashActive => Live("debounce") = {} /\ scrollDebounceTimer = NULL

\* a scroll event has arrived during the active flash
C33_Witness ==
    /\ flashActive
    /\ Live("reset") # {}
    /\ lastScrollPosition # 0
    /\ scrollFlashSuppressedUntil = now + ScrollSuppressMs
    /\ Live("debounce") = {}

\* C34: before teardown the pending trigger is set exactly while an
\* admission-delay timer is outstanding.  It is set in the step that arms
\* the timer and cleared in the step in which the timer runs, whether the
\* flash is shown or not, so a pending trigger is always cleared in the end.
C34_PendingWhileTimer ==
    /\ [](~unloaded =>
            /\ pendingFlashTrigger # NoTrigger <=> Live("flash") # {}
            /\ \A i \in Live("flash") : timers[i].id = flashTimeout)
    /\ [][pendingFlashTrigger' # pendingFlashTrigger =>
            IF pendingFlashTrigger = NoTrigger
            THEN FlashArmed(timers') /\ Live("flash") = {}
            ELSE pendingFlashTrigger' = NoTrigger /\ FlashTimeoutFire]_vars
    /\ (pendingFlashTrigger # NoTrigger) ~> (pendingFlashTrigger = NoTrigger)

\* the timer has run without a view to flash in, and the trigger is cleared
C34_Witness ==
    /\ pendingFlashTrigger = NoTrigger
    /\ flashTimeout # NULL
    /\ Live("flash") = {}
    /\ ~flashActive
    /\ Live("reset") = {}
    /\ overlays = 0
    /\ lastViewChange = now - AdmissionDelayMs

\* C35: before teardown, whenever flashActive is true the reset timer the
\* plugin holds is outstanding, armed for the configured duration, and only
\* its callback ends the flash; so every flash that becomes active becomes
\* inactive again, no later than the duration after it began.
C35_ActiveFlashEnds ==
    /\ [](~unloaded /\ flashActive =>
            \E i \in Live("reset") :
                /\ timers[i].id = resetFlashTimeout
                /\ timers[i].delay = settings.lineDuration
                /\ timers[i].due <= now + settings.lineDuration)
    /\ [][flashActive /\ ~flashActive' => ResetFire]_vars
    /\ flashActive ~> ~flashActive

\* a flash has been active and its reset timer has ended it
C35_Witness ==
    /\ ~flashActive
    /\ resetFlashTimeout # NULL
    /\ Live("reset") = {}
    /\ pendingFlashTrigger = NoTrigger
    /\ lastViewChange = now - MinIntervalMs

\* C36 as stated: from the idle state with a Markdown view active, a single
\* scroll event followed by no other event leads to exactly one flash,
\* rendered getScrollDebounceTime(delta) + 50 ms after the event; then the
\* reset timer runs and the pipeline is idle with no timer outstanding.
C36_SingleScrollOneFlash ==
    /\ gesture.phase # "violated"
    /\ gesture.phase \in {"flashed", "done"} => gesture.painted

\* C36 as amended: under the same conditions showFlash runs exactly once,
\* getScrollDebounceTime(delta) + 50 ms after the event, and renders a flash
\* overlay exactly when lineHighlightMode is not 'off' and the host yields
\* cursor coordinates; then the reset timer runs, the duration later, and
\* the pipeline is idle with no timer outstanding.  Until then the timer of
\* the next step is in the queue, due at the time of that step.
C36_SingleScrollOneShowFlash ==
    /\ gesture.phase # "violated"
    /\ gesture.phase \in {"flashed", "done"} =>
          (gesture.painted <=> gesture.coords /\ settings.lineHighlightMode # "off")
    /\ gesture.phase = "scrolled" =>
          \E i \in Live("debounce") :
              /\ timers[i].id = scrollDebounceTimer
              /\ timers[i].due = now + gesture.expect - AdmissionDelayMs - gesture.elapsed
    /\ gesture.phase = "admitted" =>
          \E i \in Live("flash") :
              /\ timers[i].id = flashTimeout
              /\ timers[i].due = now + gesture.expect - gesture.elapsed
    /\ gesture.phase = "flashed" =>
          \E i \in Live("reset") :
              /\ timers[i].id = resetFlashTimeout
              /\ timers[i].due = now + gesture.expect + settings.lineDuration - gesture.elapsed

\* the gesture run to its end, with a flash rendered 200 ms after a scroll
\* of 80 px
C36_Witness ==
    /\ gesture.phase = "done"
    /\ gesture.painted
    /\ gesture.expect = ShortDebounceMs + AdmissionDelayMs
    /\ gesture.elapsed = gesture.expect + settings.lineDuration
    /\ ~flashActive /\ pendingFlashTrigger = NoTrigger
    /\ timers = << >>

\* C37: a scroll trigger that scheduleFlash rejects when its debounce timer
\* runs is dropped for good: the rejection clears the debounce handle, arms
\* no timer and changes nothing else, and until a further scroll event
\* arrives no debounce timer, no scroll admission and no flash of a scroll
\* trigger exists, whatever else happens and however long it lasts.
C37_RejectedScrollDropped ==
    /\ [](gesture.phase = "dropped" =>
            /\ scrollDebounceTimer = NULL
            /\ Live("debounce") = {}
            /\ pendingFlashTrigger # "scroll")
    /\ [][gesture.phase # "dropped" /\ gesture'.phase = "dropped" =>
            /\ \/ clickFenceActive
               \/ flashActive
               \/ pendingFlashTrigger # NoTrigger
               \/ lastViewChange > now - MinIntervalMs
            /\ scrollDebounceTimer' = NULL
            /\ \E i \in Live("debounce") : timers' = RemoveAt(timers, i)
            /\ UNCHANGED << lastViewChange, pendingFlashTrigger, flashTimeout, flashActive,
                            resetFlashTimeout, scrollFlashSuppressedUntil, overlays >>]_vars
    /\ [][gesture.phase = "dropped" /\ gesture'.phase # "dropped" => Scroll]_vars

\* a scroll has been dropped and what stood in its way is over: no fence, no
\* flash active or pending, the last admission MinIntervalMs back, and no
\* timer left that could still show a flash
C37_Witness ==
    /\ gesture.phase = "dropped"
    /\ ~clickFenceActive /\ ~flashActive /\ pendingFlashTrigger = NoTrigger
    /\ lastViewChange <= now - MinIntervalMs
    /\ timers = << >> /\ raf1 = << >> /\ raf2 = << >>

\* the step is the arrival of one of these events
EventStep(names) == gesture' # gesture /\ gesture'.phase \in names

\* a scroll event that finds flashOnWindowScrolls off changes no state of the
\* plugin
C38_ScrollGated ==
    EventStep({"scroll"}) /\ ~settings.flashOnWindowScrolls =>
        UNCHANGED << timers, hostVars, lastViewChange, flashTimeout, resetFlashTimeout,
                     scrollDebounceTimer, lastScrollPosition, flashActive, clickFenceActive,
                     pendingFlashTrigger, scrollFlashSuppressedUntil >>

\* a workspace event that finds flashOnWindowChanges off registers no
\* animation-frame callback, so that no call of scheduleFlash comes of it
C38_FileSwitchGated ==
    EventStep({"active-leaf-change", "layout-change"}) /\ ~settings.flashOnWindowChanges =>
        UNCHANGED << raf1, raf2, timers, lastViewChange, flashTimeout, pendingFlashTrigger >>

BothTriggersOff == ~settings.flashOnWindowScrolls /\ ~settings.flashOnWindowChanges

\* C38 as stated: while flashOnWindowScrolls is off a scroll event changes no
\* plugin state, while flashOnWindowChanges is off active-leaf-change and
\* layout-change never call scheduleFlash, and with both settings off no
\* flash is ever admitted.
C38_SettingsOffNoAdmission ==
    [][/\ C38_ScrollGated
       /\ C38_FileSwitchGated
       /\ BothTriggersOff => ~Admitted]_vars

\* C38 as amended: the same of the events, and with both settings off no
\* flash is admitted once no debounce timer and no animation-frame callback
\* of an earlier event is outstanding; none becomes outstanding while both
\* stay off.
C38_SettingsOffNothingNew ==
    [][/\ C38_ScrollGated
       /\ C38_FileSwitchGated
       /\ (BothTriggersOff /\ Live("debounce") = {} /\ raf1 = << >> /\ raf2 = << >>) =>
             /\ ~Admitted
             /\ (settings' = settings =>
                   LiveIn(timers', "debounce") = {} /\ raf1' = << >> /\ raf2' = << >>)]_vars

\* both settings are off after a flash had been admitted with them on; a
\* layout-change has just arrived, found its setting off and left nothing
\* behind
C38_Witness ==
    /\ BothTriggersOff
    /\ gesture.phase = "layout-change" /\ gesture.off
    /\ lastViewChange = now - MinIntervalMs
    /\ lastScrollPosition # 0
    /\ timers = << >> /\ raf1 = << >> /\ raf2 = << >>

\* C39: the scroll-suppression window gates scroll events only: when the
\* animation-frame callback of an active-leaf-change or layout-change calls
\* scheduleFlash while now < scrollFlashSuppressedUntil and no flash is
\* active or pending, the trigger is admitted, and no admission changes
\* scrollFlashSuppressedUntil.
C39_WindowGatesScrollOnly ==
    /\ [][(/\ AnimationFrame
           /\ raf2 # << >>
           /\ now < scrollFlashSuppressedUntil
           /\ ~flashActive /\ pendingFlashTrigger = NoTrigger) =>
              /\ Admitted
              /\ pendingFlashTrigger' = Head(raf2)
              /\ isViewTrigger(pendingFlashTrigger')]_vars
    /\ [][Admitted => UNCHANGED scrollFlashSuppressedUntil]_vars

\* a view trigger has just been admitted inside the suppression window, with
\* the fence up and the last scroll-suppressed event behind it
C39_Witness ==
    /\ now < scrollFlashSuppressedUntil
    /\ isViewTrigger(pendingFlashTrigger)
    /\ lastViewChange = now /\ FlashArmed(timers)
    /\ ~flashActive /\ Live("reset") = {} /\ resetFlashTimeout # NULL
    /\ clickFenceActive

====
